---- MODULE Spec2Model ----
(***************************************************************************)
(* Bridge vault: the on-chain custody program (programs/bridge-vault).     *)
(*                                                                         *)
(* State: the bridge config account, the per-lock user bridge state        *)
(* accounts, and the SPL token accounts the instructions move funds        *)
(* between.  One action per instruction of process_instruction.  Each      *)
(* process_* operator yields the accounts as the handler has written them  *)
(* when it returns; the entrypoint keeps them if it returned Ok and        *)
(* discards them otherwise.  `last` records the most recent call and its   *)
(* result.                                                                 *)
(*                                                                         *)
(* u64 values are kept at their full width: a u64 is a tuple of five       *)
(* limbs, least significant first, four of 15 bits and a top limb of 4.    *)
(*                                                                         *)
(* The relayer (relayer/src): the relay ledger table, the two chain        *)
(* monitors and the transaction submitter, each a task of its own that     *)
(* shares only the ledger with the others.                                 *)
(***************************************************************************)
EXTENDS Integers, Sequences, FiniteSets, TLC

VARIABLES bridge_config, user_bridge_states, token_accounts, last,
          ledger, monitors, submitter

\* the accounts of the vault program
vault == <<bridge_config, user_bridge_states, token_accounts>>

\* the state of the relayer
relay == <<ledger, monitors, submitter>>

vars == <<bridge_config, user_bridge_states, token_accounts, last,
          ledger, monitors, submitter>>

-----------------------------------------------------------------------------
(* Bounds of the model *)

\* number of LockTokens that may succeed (caps config.nonce)
MaxLocks == 2
\* longest signature vector passed to UnlockTokens in SpecSig
MaxSigs == 2

-----------------------------------------------------------------------------
(* u64 arithmetic *)

\* limbs 1..4 hold 15 bits each, limb 5 the top 4 bits: 64 bits in all
Base == 2 ^ 15
TopBase == 2 ^ 4

\* Option: None is the empty tuple, Some(x) is <<x>>; a checked u64 operation
\* yields None or the u64 itself
None == <<>>
Some(x) == <<x>>

IsU64(a) ==
    /\ a \in Seq(Nat) /\ Len(a) = 5
    /\ \A i \in 1..4 : a[i] < Base
    /\ a[5] < TopBase

\* the u64 with value n, for 0 <= n < 2^30
U64(n) == <<n % Base, n \div Base, 0, 0, 0>>

U64_ZERO == <<0, 0, 0, 0, 0>>
U64_MAX == <<Base - 1, Base - 1, Base - 1, Base - 1, TopBase - 1>>
\* 2^60
U64_POW60 == <<0, 0, 0, 0, 1>>

\* a < b
U64Lt(a, b) ==
    \E i \in 1..5 : a[i] < b[i] /\ \A j \in (i + 1)..5 : a[j] = b[j]

\* u64::checked_mul by a factor k < 2^16
checked_mul(a, k) ==
    LET t1 == a[1] * k
        t2 == a[2] * k + (t1 \div Base)
        t3 == a[3] * k + (t2 \div Base)
        t4 == a[4] * k + (t3 \div Base)
        t5 == a[5] * k + (t4 \div Base)
    IN  IF t5 >= TopBase THEN None
        ELSE <<t1 % Base, t2 % Base, t3 % Base, t4 % Base, t5>>

\* u64::checked_div by a divisor d < 2^16: quotient, None for d = 0
checked_div(a, d) ==
    IF d = 0 THEN None
    ELSE LET c5 == a[5]
             c4 == (c5 % d) * Base + a[4]
             c3 == (c4 % d) * Base + a[3]
             c2 == (c3 % d) * Base + a[2]
             c1 == (c2 % d) * Base + a[1]
         IN  <<c1 \div d, c2 \div d, c3 \div d, c4 \div d, c5 \div d>>

\* u64::checked_add
checked_add(a, b) ==
    LET s1 == a[1] + b[1]
        s2 == a[2] + b[2] + (s1 \div Base)
        s3 == a[3] + b[3] + (s2 \div Base)
        s4 == a[4] + b[4] + (s3 \div Base)
        s5 == a[5] + b[5] + (s4 \div Base)
    IN  IF s5 >= TopBase THEN None
        ELSE <<s1 % Base, s2 % Base, s3 % Base, s4 % Base, s5>>

\* u64::checked_sub
checked_sub(a, b) ==
    IF U64Lt(a, b) THEN None
    ELSE LET d1 == a[1] - b[1]
             b1 == IF d1 < 0 THEN 1 ELSE 0
             d2 == a[2] - b[2] - b1
             b2 == IF d2 < 0 THEN 1 ELSE 0
             d3 == a[3] - b[3] - b2
             b3 == IF d3 < 0 THEN 1 ELSE 0
             d4 == a[4] - b[4] - b3
             b4 == IF d4 < 0 THEN 1 ELSE 0
             d5 == a[5] - b[5] - b4
         IN  <<d1 + b1 * Base, d2 + b2 * Base, d3 + b3 * Base, d4 + b4 * Base, d5>>

-----------------------------------------------------------------------------
(* Keys, programs and accounts *)

PROGRAM_ID == "bridge_vault"
SYSTEM_PROGRAM_ID == "11111111111111111111111111111111"

\* the address of the one bridge config account
BridgeConfigKey == "bridge_config"

Admins == {"A1", "A2"}
Relayers == {"R1", "R2"}
Users == {"U1", "U2"}
Mints == {"M1", "M2"}

MAX_VALIDATORS == 5

\* Pubkey::find_program_address: address and canonical bump, both a
\* function of the seeds (the program id is fixed)
find_program_address(seeds) == [key |-> <<"pda">> \o seeds, bump |-> <<"bump">> \o seeds]

VaultPda == find_program_address(<<"vault", BridgeConfigKey>>)

UserBridgeStatePda(user, nonce) == find_program_address(<<"bridge", user, nonce>>)

\* a wallet key in the form program addresses take, as the owner or authority
\* of a token account
Wallet(key) == <<key>>

\* the SPL token accounts
TokenAccountKeys == {"tU1", "tU2", "tVault", "tU1m2"}

InitTokenAccounts ==
    [k \in TokenAccountKeys |->
        CASE k = "tU1"    -> [owner |-> Wallet("U1"), mint |-> "M1", amount |-> U64_POW60]
          [] k = "tU2"    -> [owner |-> Wallet("U2"), mint |-> "M1", amount |-> U64(1000000000)]
          [] k = "tVault" -> [owner |-> VaultPda.key, mint |-> "M1", amount |-> U64_ZERO]
          [] k = "tU1m2"  -> [owner |-> Wallet("U1"), mint |-> "M2", amount |-> U64(1000000000)]]

Uninitialized == [owner |-> SYSTEM_PROGRAM_ID, data |-> None]

NoCall == [op |-> "none", res |-> "none", call |-> None]

Chains == {"Solana", "Ethereum", "Sui"}

\* the two chains that have a monitor
MonitoredChains == {"Solana", "Ethereum"}

\* a monitor between two events: no handle_event in flight
MonitorIdle == [pc |-> "poll", event |-> None]

\* the validator roster of Config::from_env: three validators, each with its
\* keys and the signing endpoint the environment gives it or not
ValidatorConfigs(endpoints) ==
    [i \in 1..3 |->
        [name |-> <<"Validator", i>>, eth_address |-> <<"eth", i>>,
         sol_public_key |-> <<"sol", i>>,
         endpoint |-> IF i \in endpoints THEN Some(<<"endpoint", i>>) ELSE None]]

\* TransactionSubmitter::new: no relayer key is set; the loop of
\* process_transactions waits for its first tick
SubmitterNew(endpoints) ==
    [pc |-> "tick", queue |-> <<>>,
     validators |-> ValidatorConfigs(endpoints),
     relayer_eth_signer |-> None, relayer_sol_keypair |-> None]

\* the relayer as main starts it: an empty ledger table, idle monitors and a
\* new submitter, the validators with the given endpoints
RelayerStarted(endpoints) ==
    /\ ledger = <<>>
    /\ monitors = [c \in MonitoredChains |-> MonitorIdle]
    /\ submitter = SubmitterNew(endpoints)

\* the vault program before Initialize
VaultDeployed ==
    /\ bridge_config = Uninitialized
    /\ user_bridge_states = <<>>
    /\ token_accounts = InitTokenAccounts

Init ==
    /\ VaultDeployed
    /\ last = NoCall
    /\ RelayerStarted({1, 2})

\* the outcome of an instruction that returned error e, the accounts being
\* (cfg, ubs, tok) at the point of the return
Fail(e, cfg, ubs, tok) == [res |-> e, config |-> cfg, states |-> ubs, tokens |-> tok]

\* entrypoint that keeps the account writes of a failed instruction; a variant
\* FailureChangesNothing must tell from the code
entrypoint_keeping_failed_writes(out, cfg, ubs, tok) == out

\* the program entrypoint under the runtime: the account writes of an
\* instruction are kept when it returns Ok and discarded when it returns an
\* error, the accounts being (cfg, ubs, tok) before the instruction
entrypoint(out, cfg, ubs, tok) ==
    IF out.res = "Ok" THEN out ELSE Fail(out.res, cfg, ubs, tok)

\* the record kept of a call and its result
Called(op, call, out) == [op |-> op, res |-> out.res, call |-> call]

-----------------------------------------------------------------------------
(* Initialize *)

\* initialize_args_error without the upper limit on the threshold; a variant
\* InitializeRejectsBadArgs must tell from the code
initialize_args_error_no_upper_threshold(fee_basis_points, validators, validator_threshold) ==
    IF fee_basis_points > 10000 THEN "InvalidFee"
    ELSE IF Len(validators) = 0 \/ Len(validators) > MAX_VALIDATORS THEN "InvalidArgument"
    ELSE IF validator_threshold = 0 THEN "InvalidArgument"
    ELSE "Ok"

\* the argument checks of process_initialize, in source order
initialize_args_error(fee_basis_points, validators, validator_threshold) ==
    IF fee_basis_points > 10000 THEN "InvalidFee"
    ELSE IF Len(validators) = 0 \/ Len(validators) > MAX_VALIDATORS THEN "InvalidArgument"
    ELSE IF validator_threshold = 0 \/ validator_threshold > Len(validators)
         THEN "InvalidArgument"
    ELSE "Ok"

\* already_initialized that takes every config account for a fresh one; a
\* variant InitializeAtMostOnce must tell from the code
already_initialized_never(cfg) == FALSE

\* the config account has left the system program: it has been initialized
already_initialized(cfg) == cfg.owner # SYSTEM_PROGRAM_ID

process_initialize(c, cfg, ubs, tok) ==
    IF ~c.is_signer THEN Fail("MissingRequiredSignature", cfg, ubs, tok)
    ELSE IF c.admin_account # c.admin THEN Fail("Unauthorized", cfg, ubs, tok)
    ELSE IF already_initialized(cfg) THEN Fail("AlreadyInitialized", cfg, ubs, tok)
    ELSE IF initialize_args_error(c.fee_basis_points, c.validators, c.validator_threshold) # "Ok"
         THEN Fail(initialize_args_error(c.fee_basis_points, c.validators,
                                         c.validator_threshold), cfg, ubs, tok)
    ELSE IF c.vault_pda_account # VaultPda.key THEN Fail("InvalidPDA", cfg, ubs, tok)
    ELSE [res |-> "Ok",
          config |-> [owner |-> PROGRAM_ID,
                      data |-> [admin |-> c.admin,
                                relayer_authority |-> c.relayer_authority,
                                vault_pda_bump |-> VaultPda.bump,
                                fee_basis_points |-> c.fee_basis_points,
                                is_paused |-> FALSE,
                                total_locked |-> U64_ZERO,
                                nonce |-> 0,
                                validators |-> c.validators,
                                validator_threshold |-> c.validator_threshold]],
          states |-> ubs,
          tokens |-> tok]

Initialize(c) ==
    LET out == entrypoint(process_initialize(c, bridge_config, user_bridge_states, token_accounts),
                         bridge_config, user_bridge_states, token_accounts)
    IN  /\ bridge_config' = out.config
        /\ user_bridge_states' = out.states
        /\ token_accounts' = out.tokens
        /\ last' = Called("Initialize", c, out)
        /\ UNCHANGED relay

-----------------------------------------------------------------------------
(* UpdateConfig, Pause, Unpause *)

\* update_fee_error that accepts any fee; a variant ConfigInvariant must tell
\* from the code
update_fee_error_unchecked(new_fee) == "Ok"

\* the fee check of process_update_config
update_fee_error(new_fee) ==
    IF new_fee # None /\ new_fee[1] > 10000 THEN "InvalidFee" ELSE "Ok"

\* admin_check that accepts any signer; a variant OnlyAdminAdministers must
\* tell from the code
admin_check_any_signer(c, cfg) ==
    IF ~c.is_signer THEN "MissingRequiredSignature"
    ELSE IF cfg.owner # PROGRAM_ID THEN "IncorrectOwner"
    ELSE "Ok"

\* the signer, owner and admin checks shared by the three admin instructions
admin_check(c, cfg) ==
    IF ~c.is_signer THEN "MissingRequiredSignature"
    ELSE IF cfg.owner # PROGRAM_ID THEN "IncorrectOwner"
    ELSE IF c.admin_account # cfg.data.admin THEN "Unauthorized"
    ELSE "Ok"

\* process_update_config that writes the fee whether supplied or not, zero
\* when it is not; a variant UpdateConfigChangesSupplied must tell from the
\* code
process_update_config_writing_unsupplied(c, cfg, ubs, tok) ==
    IF admin_check(c, cfg) # "Ok" THEN Fail(admin_check(c, cfg), cfg, ubs, tok)
    ELSE IF update_fee_error(c.new_fee) # "Ok" THEN Fail(update_fee_error(c.new_fee), cfg, ubs, tok)
    ELSE [res |-> "Ok",
          config |-> [cfg EXCEPT
              !.data.admin = IF c.new_admin # None THEN c.new_admin[1] ELSE @,
              !.data.relayer_authority = IF c.new_relayer # None THEN c.new_relayer[1] ELSE @,
              !.data.fee_basis_points = IF c.new_fee # None THEN c.new_fee[1] ELSE 0],
          states |-> ubs,
          tokens |-> tok]

\* process_update_config: the admin, the relayer and the fee are written
\* where supplied
process_update_config(c, cfg, ubs, tok) ==
    IF admin_check(c, cfg) # "Ok" THEN Fail(admin_check(c, cfg), cfg, ubs, tok)
    ELSE IF update_fee_error(c.new_fee) # "Ok" THEN Fail(update_fee_error(c.new_fee), cfg, ubs, tok)
    ELSE [res |-> "Ok",
          config |-> [cfg EXCEPT
              !.data.admin = IF c.new_admin # None THEN c.new_admin[1] ELSE @,
              !.data.relayer_authority = IF c.new_relayer # None THEN c.new_relayer[1] ELSE @,
              !.data.fee_basis_points = IF c.new_fee # None THEN c.new_fee[1] ELSE @],
          states |-> ubs,
          tokens |-> tok]

UpdateConfig(c) ==
    LET out == entrypoint(process_update_config(c, bridge_config, user_bridge_states, token_accounts),
                         bridge_config, user_bridge_states, token_accounts)
    IN  /\ bridge_config' = out.config
        /\ user_bridge_states' = out.states
        /\ token_accounts' = out.tokens
        /\ last' = Called("UpdateConfig", c, out)
        /\ UNCHANGED relay

\* process_pause that refuses a bridge already paused; a variant
\* PauseUnpauseFromRunning must tell from the code
process_pause_refusing_paused(c, cfg, ubs, tok) ==
    IF admin_check(c, cfg) # "Ok" THEN Fail(admin_check(c, cfg), cfg, ubs, tok)
    ELSE IF cfg.data.is_paused THEN Fail("BridgePaused", cfg, ubs, tok)
    ELSE [res |-> "Ok", config |-> [cfg EXCEPT !.data.is_paused = TRUE],
          states |-> ubs, tokens |-> tok]

\* process_pause: Ok with nothing written when the bridge is already paused
process_pause(c, cfg, ubs, tok) ==
    IF admin_check(c, cfg) # "Ok" THEN Fail(admin_check(c, cfg), cfg, ubs, tok)
    ELSE IF cfg.data.is_paused THEN [res |-> "Ok", config |-> cfg, states |-> ubs, tokens |-> tok]
    ELSE [res |-> "Ok", config |-> [cfg EXCEPT !.data.is_paused = TRUE],
          states |-> ubs, tokens |-> tok]

Pause(c) ==
    LET out == entrypoint(process_pause(c, bridge_config, user_bridge_states, token_accounts),
                         bridge_config, user_bridge_states, token_accounts)
    IN  /\ bridge_config' = out.config
        /\ user_bridge_states' = out.states
        /\ token_accounts' = out.tokens
        /\ last' = Called("Pause", c, out)
        /\ UNCHANGED relay

process_unpause(c, cfg, ubs, tok) ==
    IF admin_check(c, cfg) # "Ok" THEN Fail(admin_check(c, cfg), cfg, ubs, tok)
    ELSE IF ~cfg.data.is_paused THEN [res |-> "Ok", config |-> cfg, states |-> ubs, tokens |-> tok]
    ELSE [res |-> "Ok", config |-> [cfg EXCEPT !.data.is_paused = FALSE],
          states |-> ubs, tokens |-> tok]

Unpause(c) ==
    LET out == entrypoint(process_unpause(c, bridge_config, user_bridge_states, token_accounts),
                         bridge_config, user_bridge_states, token_accounts)
    IN  /\ bridge_config' = out.config
        /\ user_bridge_states' = out.states
        /\ token_accounts' = out.tokens
        /\ last' = Called("Unpause", c, out)
        /\ UNCHANGED relay

-----------------------------------------------------------------------------
(* SPL token transfer, as invoked by LockTokens and UnlockTokens *)

\* spl_token transfer of `amount` from source to destination under the
\* given authority: [res, tokens]
spl_token_transfer(tok, source, destination, authority, amount) ==
    IF U64Lt(tok[source].amount, amount) THEN [res |-> "TokenInsufficientFunds", tokens |-> tok]
    ELSE IF tok[source].mint # tok[destination].mint
         THEN [res |-> "TokenMintMismatch", tokens |-> tok]
    ELSE IF tok[source].owner # authority THEN [res |-> "TokenOwnerMismatch", tokens |-> tok]
    ELSE IF source = destination THEN [res |-> "Ok", tokens |-> tok]
    ELSE IF checked_add(tok[destination].amount, amount) = None
         THEN [res |-> "TokenOverflow", tokens |-> tok]
    ELSE [res |-> "Ok",
          tokens |-> [tok EXCEPT
              ![source].amount = checked_sub(@, amount),
              ![destination].amount = checked_add(@, amount)]]

-----------------------------------------------------------------------------
(* LockTokens *)

\* u64::wrapping_mul by a factor k < 2^16
wrapping_mul(a, k) ==
    LET t1 == a[1] * k
        t2 == a[2] * k + (t1 \div Base)
        t3 == a[3] * k + (t2 \div Base)
        t4 == a[4] * k + (t3 \div Base)
        t5 == a[5] * k + (t4 \div Base)
    IN  <<t1 % Base, t2 % Base, t3 % Base, t4 % Base, t5 % TopBase>>

\* lock_fee with an unchecked product; a variant FeeArithmetic must tell from
\* the code
lock_fee_wrapping(amount, fee_basis_points) ==
    checked_div(wrapping_mul(amount, fee_basis_points), 10000)

\* fee = amount * fee_basis_points / 10000, None on overflow
lock_fee(amount, fee_basis_points) ==
    IF checked_mul(amount, fee_basis_points) = None THEN None
    ELSE checked_div(checked_mul(amount, fee_basis_points), 10000)

\* net_amount = amount - fee, None on overflow
lock_net_amount(amount, fee) == checked_sub(amount, fee)

\* lock_nonce that leaves config.nonce as it was; a variant NonceAssignment
\* must tell from the code
lock_nonce_not_incremented(config_nonce) ==
    [current_nonce |-> config_nonce, next_nonce |-> config_nonce]

\* the nonce a lock takes and the value config.nonce has after it
lock_nonce(config_nonce) == [current_nonce |-> config_nonce, next_nonce |-> config_nonce + 1]

\* lock_entry_error without the pause check; a variant
\* PauseBlocksLockNotUnlock must tell from the code
lock_entry_error_unpaused(c, cfg) ==
    IF ~c.is_signer THEN "MissingRequiredSignature"
    ELSE IF cfg.owner # PROGRAM_ID THEN "IncorrectOwner"
    ELSE IF c.amount = U64_ZERO THEN "InsufficientFunds"
    ELSE IF c.destination_chain = 0 \/ c.destination_chain > 10 THEN "InvalidDestination"
    ELSE "Ok"

\* the checks of process_lock_tokens that precede the fee computation
lock_entry_error(c, cfg) ==
    IF ~c.is_signer THEN "MissingRequiredSignature"
    ELSE IF cfg.owner # PROGRAM_ID THEN "IncorrectOwner"
    ELSE IF cfg.data.is_paused THEN "BridgePaused"
    ELSE IF c.amount = U64_ZERO THEN "InsufficientFunds"
    ELSE IF c.destination_chain = 0 \/ c.destination_chain > 10 THEN "InvalidDestination"
    ELSE "Ok"

\* lock_token_error without the mint comparison; a variant
\* LockBalanceAndMintChecks must tell from the code
lock_token_error_mint_unchecked(user_token, amount, token_mint) ==
    IF U64Lt(user_token.amount, amount) THEN "InsufficientFunds" ELSE "Ok"

\* the checks of process_lock_tokens on the user's token account: its
\* balance, then its mint against the mint account passed with the call
lock_token_error(user_token, amount, token_mint) ==
    IF U64Lt(user_token.amount, amount) THEN "InsufficientFunds"
    ELSE IF user_token.mint # token_mint THEN "InvalidAccountData"
    ELSE "Ok"

\* lock_total_locked that counts the gross amount, fee included; a variant
\* TotalLockedIsSumOfPending must tell from the code
lock_total_locked_gross(total_locked, amount, net_amount) ==
    checked_add(total_locked, amount)

\* total_locked after a lock: raised by the net amount, None on overflow
lock_total_locked(total_locked, amount, net_amount) ==
    checked_add(total_locked, net_amount)

process_lock_tokens(c, cfg, ubs, tok) ==
    IF lock_entry_error(c, cfg) # "Ok" THEN Fail(lock_entry_error(c, cfg), cfg, ubs, tok)
    ELSE IF lock_fee(c.amount, cfg.data.fee_basis_points) = None
         THEN Fail("Overflow", cfg, ubs, tok)
    ELSE IF lock_net_amount(c.amount, lock_fee(c.amount, cfg.data.fee_basis_points)) = None
         THEN Fail("Overflow", cfg, ubs, tok)
    ELSE IF lock_token_error(tok[c.user_token_account], c.amount, c.token_mint_account) # "Ok"
         THEN Fail(lock_token_error(tok[c.user_token_account], c.amount, c.token_mint_account),
                   cfg, ubs, tok)
    ELSE IF c.user_bridge_state_account #
                UserBridgeStatePda(c.user_account, lock_nonce(cfg.data.nonce).current_nonce).key
         THEN Fail("InvalidPDA", cfg, ubs, tok)
    ELSE IF c.user_bridge_state_account \in DOMAIN ubs
         THEN Fail("AccountAlreadyInUse", cfg, ubs, tok)
    ELSE LET fee == lock_fee(c.amount, cfg.data.fee_basis_points)
             net_amount == lock_net_amount(c.amount, fee)
             n == lock_nonce(cfg.data.nonce)
             tr == spl_token_transfer(tok, c.user_token_account, c.vault_token_account,
                                      Wallet(c.user_account), c.amount)
             user_bridge_state ==
                 [user |-> c.user_account,
                  locked_amount |-> net_amount,
                  token_mint |-> c.token_mint_account,
                  destination_chain |-> c.destination_chain,
                  destination_address |-> c.destination_address,
                  status |-> "Pending",
                  nonce |-> n.current_nonce,
                  unlocked |-> FALSE]
             \* the record account is created and written before the transfer
             created == ubs @@ (c.user_bridge_state_account :> user_bridge_state)
         IN  IF tr.res # "Ok" THEN Fail(tr.res, cfg, created, tok)
             ELSE IF lock_total_locked(cfg.data.total_locked, c.amount, net_amount) = None
                  THEN Fail("Overflow", cfg, created, tr.tokens)
             ELSE [res |-> "Ok",
                   config |-> [cfg EXCEPT
                       !.data.nonce = n.next_nonce,
                       !.data.total_locked = lock_total_locked(@, c.amount, net_amount)],
                   states |-> created,
                   tokens |-> tr.tokens]

\* config.nonce is a u64; the model stops accepting locks at MaxLocks
LockTokens(c) ==
    LET out == entrypoint(process_lock_tokens(c, bridge_config, user_bridge_states, token_accounts),
                         bridge_config, user_bridge_states, token_accounts)
    IN  /\ out.res = "Ok" => bridge_config.data.nonce < MaxLocks
        /\ bridge_config' = out.config
        /\ user_bridge_states' = out.states
        /\ token_accounts' = out.tokens
        /\ last' = Called("LockTokens", c, out)
        /\ UNCHANGED relay

-----------------------------------------------------------------------------
(* UnlockTokens *)

\* SHA-256 over "unlock:" || nonce || user || amount, kept as its preimage
create_unlock_message(nonce, user, amount) ==
    [hash |-> "sha256",
     data |-> <<<<"raw", [len |-> 7, id |-> "unlock:"]>>, <<"le64", U64(nonce)>>,
                <<"raw", [len |-> 32, id |-> user]>>, <<"le64", amount>>>>]

\* a signature is the key that made it and the message it was made over
verify_ed25519_signature(message, signature, pubkey) ==
    signature.signer = pubkey /\ signature.message = message

\* valid_signature_count that counts a signature over the message whatever
\* key made it; a variant ThresholdEnforced must tell from the code
valid_signature_count_any_key(message_data, signatures, validators) ==
    Cardinality({i \in 1..Len(signatures) : signatures[i].message = message_data})

\* the loop of process_unlock_tokens: one count per supplied signature that
\* verifies under some configured validator key
valid_signature_count(message_data, signatures, validators) ==
    Cardinality({i \in 1..Len(signatures) :
        \E j \in 1..Len(validators) :
            verify_ed25519_signature(message_data, signatures[i], validators[j])})

\* the two threshold checks of process_unlock_tokens
threshold_met(message_data, signatures, validators, validator_threshold) ==
    /\ Len(signatures) >= validator_threshold
    /\ valid_signature_count(message_data, signatures, validators) >= validator_threshold

\* relayer_check that accepts any signer; a variant OnlyRelayerUnlocks must
\* tell from the code
relayer_check_any_signer(c, cfg) ==
    IF ~c.is_signer THEN "MissingRequiredSignature"
    ELSE IF cfg.owner # PROGRAM_ID THEN "IncorrectOwner"
    ELSE "Ok"

\* the relayer checks of process_unlock_tokens, with the owner check between them
relayer_check(c, cfg) ==
    IF ~c.is_signer THEN "MissingRequiredSignature"
    ELSE IF cfg.owner # PROGRAM_ID THEN "IncorrectOwner"
    ELSE IF c.relayer_account # cfg.data.relayer_authority THEN "Unauthorized"
    ELSE "Ok"

\* unlock_state_error without the test of the unlocked flag; a variant
\* UnlockAtMostOnce must tell from the code
unlock_state_error_ignoring_unlocked(c, ubs) ==
    IF c.user_bridge_state_account \notin DOMAIN ubs THEN "IncorrectOwner"
    ELSE IF ubs[c.user_bridge_state_account].nonce # c.nonce THEN "InvalidNonce"
    ELSE IF c.user_account # ubs[c.user_bridge_state_account].user THEN "Unauthorized"
    ELSE "Ok"

\* the checks on the user bridge state account
unlock_state_error(c, ubs) ==
    IF c.user_bridge_state_account \notin DOMAIN ubs THEN "IncorrectOwner"
    ELSE IF ubs[c.user_bridge_state_account].nonce # c.nonce THEN "InvalidNonce"
    ELSE IF ubs[c.user_bridge_state_account].unlocked THEN "AlreadyUnlocked"
    ELSE IF ubs[c.user_bridge_state_account].status # "Pending" THEN "InvalidStatus"
    ELSE IF c.user_account # ubs[c.user_bridge_state_account].user THEN "Unauthorized"
    ELSE "Ok"

\* unlock_completed that sets the unlocked flag and leaves the status; a
\* variant StatusFollowsUnlocked must tell from the code
unlock_completed_flag_only(user_bridge_state) ==
    [user_bridge_state EXCEPT !.unlocked = TRUE]

\* the lock record as an unlock writes it back
unlock_completed(user_bridge_state) ==
    [user_bridge_state EXCEPT !.unlocked = TRUE, !.status = "Completed"]

process_unlock_tokens(c, cfg, ubs, tok) ==
    IF relayer_check(c, cfg) # "Ok" THEN Fail(relayer_check(c, cfg), cfg, ubs, tok)
    ELSE IF unlock_state_error(c, ubs) # "Ok" THEN Fail(unlock_state_error(c, ubs), cfg, ubs, tok)
    ELSE IF c.vault_pda_account # VaultPda.key THEN Fail("InvalidPDA", cfg, ubs, tok)
    ELSE IF VaultPda.bump # cfg.data.vault_pda_bump THEN Fail("InvalidPDA", cfg, ubs, tok)
    ELSE LET user_bridge_state == ubs[c.user_bridge_state_account]
             message_data == create_unlock_message(c.nonce, c.user_account,
                                                   user_bridge_state.locked_amount)
             tr == spl_token_transfer(tok, c.vault_token_account, c.user_token_account,
                                      c.vault_pda_account, user_bridge_state.locked_amount)
             \* the record is written after the transfer, before total_locked
             completed == [ubs EXCEPT
                              ![c.user_bridge_state_account] = unlock_completed(@)]
         IN  IF ~threshold_met(message_data, c.signatures, cfg.data.validators,
                               cfg.data.validator_threshold)
             THEN Fail("ThresholdNotMet", cfg, ubs, tok)
             ELSE IF tr.res # "Ok" THEN Fail(tr.res, cfg, ubs, tok)
             ELSE IF checked_sub(cfg.data.total_locked, user_bridge_state.locked_amount) = None
                  THEN Fail("Overflow", cfg, completed, tr.tokens)
             ELSE [res |-> "Ok",
                   config |-> [cfg EXCEPT
                       !.data.total_locked = checked_sub(@, user_bridge_state.locked_amount)],
                   states |-> completed,
                   tokens |-> tr.tokens]

UnlockTokens(c) ==
    LET out == entrypoint(process_unlock_tokens(c, bridge_config, user_bridge_states, token_accounts),
                         bridge_config, user_bridge_states, token_accounts)
    IN  /\ bridge_config' = out.config
        /\ user_bridge_states' = out.states
        /\ token_accounts' = out.tokens
        /\ last' = Called("UnlockTokens", c, out)
        /\ UNCHANGED relay

-----------------------------------------------------------------------------
(* The calls the environment makes *)

Validators == <<"V1", "V2", "V3", "V4", "V5", "V6">>

\* the destination address of every lock: an Ethereum address in 32 bytes
DestinationAddress == "eth:742d35Cc"

InitializeOk ==
    [admin_account |-> "A1", is_signer |-> TRUE, admin |-> "A1", relayer_authority |-> "R1",
     fee_basis_points |-> 50, validators |-> SubSeq(Validators, 1, 2),
     validator_threshold |-> 2, vault_pda_account |-> VaultPda.key]

\* the well-formed Initialize and one call per check it can fail
InitializeCalls ==
    {InitializeOk,
     [InitializeOk EXCEPT !.is_signer = FALSE],
     [InitializeOk EXCEPT !.admin_account = "A2"],
     [InitializeOk EXCEPT !.fee_basis_points = 10001],
     [InitializeOk EXCEPT !.validators = <<>>],
     [InitializeOk EXCEPT !.validators = Validators],
     [InitializeOk EXCEPT !.validator_threshold = 0],
     [InitializeOk EXCEPT !.validator_threshold = 3],
     [InitializeOk EXCEPT !.vault_pda_account = <<"pda", "other">>]}

\* UpdateConfig of the relayer and the fee, by the admin and by another key
UpdateConfigCalls ==
    [admin_account : Admins, is_signer : {TRUE},
     new_admin : {None}, new_relayer : {None, Some("R2")},
     new_fee : {None, Some(10), Some(10001)}]
    \cup
    [admin_account : {"A1"}, is_signer : {FALSE},
     new_admin : {None}, new_relayer : {Some("R2")}, new_fee : {Some(10)}]

\* Pause and Unpause take the admin account only
AdminCalls ==
    [admin_account : Admins, is_signer : {TRUE}] \cup [admin_account : {"A1"}, is_signer : {FALSE}]

TokenAccountOf(user) == IF user = "U1" THEN "tU1" ELSE "tU2"

LockOk(user) ==
    [user_account |-> user, is_signer |-> TRUE,
     user_token_account |-> TokenAccountOf(user), vault_token_account |-> "tVault",
     user_bridge_state_account |->
         UserBridgeStatePda(user, IF bridge_config.owner = PROGRAM_ID
                                  THEN bridge_config.data.nonce ELSE 0).key,
     token_mint_account |-> "M1", amount |-> U64(1000000000),
     destination_chain |-> 1, destination_address |-> DestinationAddress]

\* the well-formed lock of each user and one call per check it can fail
LockCalls ==
    {LockOk(u) : u \in Users}
    \cup
    {[LockOk("U1") EXCEPT !.is_signer = FALSE],
     [LockOk("U1") EXCEPT !.amount = U64_ZERO],
     [LockOk("U1") EXCEPT !.amount = U64_MAX],
     [LockOk("U1") EXCEPT !.destination_chain = 0],
     [LockOk("U1") EXCEPT !.destination_chain = 11],
     [LockOk("U1") EXCEPT !.user_token_account = "tU1m2"],
     [LockOk("U1") EXCEPT !.user_token_account = "tU2"],
     [LockOk("U1") EXCEPT !.user_bridge_state_account = UserBridgeStatePda("U2", 0).key]}

\* the signature of validator key k over the release message of lock record r
SignatureOf(k, r) ==
    [signer |-> k, message |-> create_unlock_message(r.nonce, r.user, r.locked_amount)]

\* a signature of key k over the release message of another nonce
StaleSignatureOf(k, r) ==
    [signer |-> k, message |-> create_unlock_message(r.nonce + 1, r.user, r.locked_amount)]

UnlockOk(a, relayer) ==
    [relayer_account |-> relayer, is_signer |-> TRUE,
     user_account |-> user_bridge_states[a].user,
     user_token_account |-> TokenAccountOf(user_bridge_states[a].user),
     vault_token_account |-> "tVault", vault_pda_account |-> VaultPda.key,
     user_bridge_state_account |-> a, nonce |-> user_bridge_states[a].nonce,
     signatures |-> <<SignatureOf("V1", user_bridge_states[a]),
                      SignatureOf("V2", user_bridge_states[a])>>]

\* per lock record and relayer key: the well-formed unlock, and one call per
\* check it can fail
UnlockCalls ==
    UNION {
        {UnlockOk(a, r),
         [UnlockOk(a, r) EXCEPT !.is_signer = FALSE],
         [UnlockOk(a, r) EXCEPT !.nonce = @ + 1],
         [UnlockOk(a, r) EXCEPT !.user_account = IF @ = "U1" THEN "U2" ELSE "U1"],
         [UnlockOk(a, r) EXCEPT !.vault_pda_account = <<"pda", "other">>],
         [UnlockOk(a, r) EXCEPT !.user_bridge_state_account = <<"pda", "other">>],
         [UnlockOk(a, r) EXCEPT !.signatures = SubSeq(@, 1, 1)]}
        : a \in DOMAIN user_bridge_states, r \in Relayers}

Next ==
    \/ \E c \in InitializeCalls : Initialize(c)
    \/ \E c \in LockCalls : LockTokens(c)
    \/ \E c \in UnlockCalls : UnlockTokens(c)
    \/ \E c \in UpdateConfigCalls : UpdateConfig(c)
    \/ \E c \in AdminCalls : Pause(c)
    \/ \E c \in AdminCalls : Unpause(c)

Spec == Init /\ [][Next]_vars

-----------------------------------------------------------------------------
(* Initialize over the product of its arguments *)

InitializeArgCalls ==
    {[InitializeOk EXCEPT !.is_signer = s, !.fee_basis_points = f,
                          !.validators = SubSeq(Validators, 1, n),
                          !.validator_threshold = t]
        : s \in BOOLEAN, f \in {50, 10000, 10001}, n \in {0, 1, 2, 5, 6},
          t \in {0, 1, 2, 5, 6}}

NextInit == \E c \in InitializeArgCalls : Initialize(c)

SpecInit == Init /\ [][NextInit]_vars

-----------------------------------------------------------------------------
(* The admin instructions, with the admin key itself replaced *)

AdminUpdateConfigCalls ==
    [admin_account : Admins, is_signer : BOOLEAN,
     new_admin : {None, Some("A1"), Some("A2")}, new_relayer : {None, Some("R2")},
     new_fee : {None, Some(10), Some(10001)}]

AdminPauseCalls == [admin_account : Admins, is_signer : BOOLEAN]

NextAdmin ==
    \/ Initialize(InitializeOk)
    \/ \E c \in AdminUpdateConfigCalls : UpdateConfig(c)
    \/ \E c \in AdminPauseCalls : Pause(c)
    \/ \E c \in AdminPauseCalls : Unpause(c)

SpecAdmin == Init /\ [][NextAdmin]_vars

-----------------------------------------------------------------------------
(* LockTokens over fees and amounts up to the u64 limit *)

FeeSet == {0, 1, 50, 9999, 10000}

\* the largest amount whose product with 50 basis points fits a u64
MaxAmountAt50 == checked_div(U64_MAX, 50)

FeeAmounts ==
    {U64(1), U64(199), U64(200), U64(1000000000), U64_POW60,
     MaxAmountAt50, checked_add(MaxAmountAt50, U64(1)), U64_MAX}

\* the bridge as Initialize leaves it for fee f, and a user holding the
\* whole supply of the mint
InitFee ==
    /\ bridge_config \in
           {process_initialize([InitializeOk EXCEPT !.fee_basis_points = f],
                               Uninitialized, <<>>, InitTokenAccounts).config : f \in FeeSet}
    /\ user_bridge_states = <<>>
    /\ token_accounts = [InitTokenAccounts EXCEPT !["tU1"].amount = U64_MAX,
                                                  !["tU2"].amount = U64_ZERO]
    /\ last = NoCall
    /\ RelayerStarted({1, 2})

NextFee == \E a \in FeeAmounts : LockTokens([LockOk("U1") EXCEPT !.amount = a])

SpecFee == InitFee /\ [][NextFee]_vars

-----------------------------------------------------------------------------
(* UnlockTokens over signature vectors *)

SigInitializeCalls ==
    {[InitializeOk EXCEPT !.validators = SubSeq(Validators, 1, n), !.validator_threshold = t]
        : n \in {2, 3}, t \in {1, 2}}

\* the signatures a relayer can hold for lock record r: of validators, of a
\* key that is no validator, and of a validator over another message
SignaturePool(r) ==
    {SignatureOf("V1", r), SignatureOf("V2", r), SignatureOf("X", r), StaleSignatureOf("V1", r)}

SignatureVectors(r) == UNION {[1..n -> SignaturePool(r)] : n \in 0..MaxSigs}

SigUnlockCalls ==
    UNION {{[UnlockOk(a, "R1") EXCEPT !.signatures = v]
                : v \in SignatureVectors(user_bridge_states[a])}
            : a \in DOMAIN user_bridge_states}

NextSig ==
    \/ \E c \in SigInitializeCalls : Initialize(c)
    \/ LockTokens(LockOk("U1"))
    \/ \E c \in SigUnlockCalls : UnlockTokens(c)

SpecSig == Init /\ [][NextSig]_vars

-----------------------------------------------------------------------------
(* LockTokens and UnlockTokens over the token accounts a caller can pass *)

\* the vault token account passed to a lock: the vault's, the locker's own,
\* another user's
CustodyLockCalls ==
    {[LockOk(u) EXCEPT !.vault_token_account = v] : u \in Users, v \in {"tVault", "tU1", "tU2"}}

\* the token accounts passed to an unlock: any destination, and as source the
\* vault's account or a user's
CustodyUnlockCalls ==
    UNION {{[UnlockOk(a, "R1") EXCEPT !.user_token_account = d, !.vault_token_account = v]
                : d \in {"tU1", "tU2", "tVault"}, v \in {"tVault", "tU1"}}
            : a \in DOMAIN user_bridge_states}

NextCustody ==
    \/ Initialize(InitializeOk)
    \/ \E c \in CustodyLockCalls : LockTokens(c)
    \/ \E c \in CustodyUnlockCalls : UnlockTokens(c)

SpecCustody == Init /\ [][NextCustody]_vars

-----------------------------------------------------------------------------
(* The relay ledger: the relayer_transactions table of db.rs *)

\* SELECT COUNT(*) ... WHERE nonce: the table has a row with this nonce
is_nonce_processed(db, nonce) == \E i \in 1..Len(db) : db[i].nonce = nonce

\* unique_violation with no UNIQUE constraint on the nonce column; a variant
\* LedgerCreateIdempotent must tell from the code
unique_violation_hash_only(db, nonce, from_tx_hash) ==
    \E i \in 1..Len(db) : db[i].from_tx_hash = from_tx_hash

\* the UNIQUE constraints of the table, on nonce and on from_tx_hash: an
\* INSERT of a value a row already holds is refused
unique_violation(db, nonce, from_tx_hash) ==
    \E i \in 1..Len(db) : db[i].nonce = nonce \/ db[i].from_tx_hash = from_tx_hash

\* INSERT of a Pending row; id is the AUTOINCREMENT key (rows are never
\* deleted) and created_at the order of insertion
create_transaction(db, nonce, from_chain, to_chain, from_tx_hash, sender, recipient, amount) ==
    IF unique_violation(db, nonce, from_tx_hash) THEN [res |-> "DatabaseError", db |-> db]
    ELSE [res |-> "Ok",
          db |-> Append(db, [id |-> Len(db) + 1,
                             nonce |-> nonce,
                             from_chain |-> from_chain,
                             to_chain |-> to_chain,
                             from_tx_hash |-> from_tx_hash,
                             to_tx_hash |-> None,
                             sender |-> sender,
                             recipient |-> recipient,
                             amount |-> amount,
                             status |-> "Pending",
                             signatures |-> None,
                             error_message |-> None,
                             created_at |-> Len(db) + 1])]

\* update_transaction_status that writes the status alone; a variant
\* SignaturesCollectedStep must tell from the code
update_transaction_status_status_only(db, id, status, to_tx_hash, error_message) ==
    [db EXCEPT ![id].status = status]

\* UPDATE ... SET status, to_tx_hash, error_message WHERE id: all three
\* columns are written, whatever the row holds
update_transaction_status(db, id, status, to_tx_hash, error_message) ==
    [db EXCEPT ![id].status = status,
               ![id].to_tx_hash = to_tx_hash,
               ![id].error_message = error_message]

\* UPDATE ... SET signatures, status = SignaturesCollected WHERE id
update_signatures(db, id, signatures) ==
    [db EXCEPT ![id].signatures = Some(signatures), ![id].status = "SignaturesCollected"]

\* ORDER BY created_at ASC and ORDER BY created_at DESC over rows whose
\* created_at differ
order_by_created_at_asc(rows) ==
    [k \in 1..Len(rows) |->
        rows[CHOOSE i \in 1..Len(rows) :
                Cardinality({j \in 1..Len(rows) : rows[j].created_at < rows[i].created_at}) = k - 1]]

order_by_created_at_desc(rows) ==
    [k \in 1..Len(rows) |->
        rows[CHOOSE i \in 1..Len(rows) :
                Cardinality({j \in 1..Len(rows) : rows[j].created_at > rows[i].created_at}) = k - 1]]

\* get_pending_transactions with the order of get_transactions_by_status; a
\* variant QueueOldestFirst must tell from the code
get_pending_transactions_newest_first(db) ==
    order_by_created_at_desc(
        SelectSeq(db, LAMBDA row : row.status \in {"Pending", "SignaturesCollected"}))

\* SELECT ... WHERE status is Pending or SignaturesCollected ORDER BY
\* created_at ASC
get_pending_transactions(db) ==
    order_by_created_at_asc(
        SelectSeq(db, LAMBDA row : row.status \in {"Pending", "SignaturesCollected"}))

-----------------------------------------------------------------------------
(* The chain monitors: solana_monitor.rs and ethereum_monitor.rs *)

\* a string that spells bytes: text is its form ("0xhex", "hex", "base58",
\* or "other" for a string of no such form), bytes what it spells
Spelled(text, len, id) == [text |-> text, bytes |-> [len |-> len, id |-> id]]

\* the TokensLocked event in the logs of a vault transaction, its fields as
\* parse_logs extracts them; None when a field is missing or does not parse
parse_logs(logs, tx_hash) ==
    IF logs = None THEN [res |-> "Ok", event |-> None]
    ELSE IF logs[1].destination_chain \notin {1, 2} THEN [res |-> "ParseError", event |-> None]
    ELSE LET to_chain == IF logs[1].destination_chain = 1 THEN "Ethereum" ELSE "Sui"
         IN  [res |-> "Ok",
              event |-> Some([kind |-> "TokensLocked",
                              from_chain |-> "Solana",
                              to_chain |-> to_chain,
                              sender |-> Spelled("base58", 32, logs[1].user),
                              recipient |->
                                  Spelled(IF to_chain = "Ethereum" THEN "0xhex" ELSE "hex",
                                          logs[1].destination_address.len,
                                          logs[1].destination_address.id),
                              amount |-> logs[1].amount,
                              nonce |-> logs[1].nonce,
                              tx_hash |-> tx_hash])]

\* the TokensBurned event of a log of the bridge contract, as process_log
\* builds it
decode_log(log) ==
    IF ~log.decodes THEN [res |-> "ParseError", event |-> None]
    ELSE [res |-> "Ok",
          event |-> Some([kind |-> "TokensBurned",
                          from_chain |-> "Ethereum",
                          to_chain |-> "Solana",
                          sender |-> Spelled("0xhex", 20, log.sender),
                          recipient |-> log.solanaAddress,
                          amount |-> log.amount,
                          nonce |-> log.nonce,
                          tx_hash |-> log.transaction_hash])]

\* SolanaMonitor::process_transaction up to the insert: a failed transaction
\* and one without the event are passed over, an event whose nonce has a row
\* is skipped, any other is held for create_transaction
solana_process_transaction(tx, db) ==
    IF tx.err THEN [res |-> "Ok", event |-> None]
    ELSE IF parse_logs(tx.log_messages, tx.signature).res # "Ok"
         THEN [res |-> parse_logs(tx.log_messages, tx.signature).res, event |-> None]
    ELSE IF parse_logs(tx.log_messages, tx.signature).event = None
         THEN [res |-> "Ok", event |-> None]
    ELSE IF is_nonce_processed(db, parse_logs(tx.log_messages, tx.signature).event[1].nonce)
         THEN [res |-> "Skipped", event |-> None]
    ELSE [res |-> "Insert", event |-> parse_logs(tx.log_messages, tx.signature).event]

\* EthereumMonitor::process_log up to the insert
ethereum_process_log(log, db) ==
    IF decode_log(log).res # "Ok" THEN [res |-> decode_log(log).res, event |-> None]
    ELSE IF is_nonce_processed(db, decode_log(log).event[1].nonce)
         THEN [res |-> "Skipped", event |-> None]
    ELSE [res |-> "Insert", event |-> decode_log(log).event]

\* the monitor after process_transaction or process_log came to out: it
\* holds the event for the insert, or is back in its loop
observed(monitor, out) ==
    IF out.res = "Insert" THEN [monitor EXCEPT !.pc = "insert", !.event = out.event]
    ELSE [monitor EXCEPT !.pc = "poll", !.event = None]

\* the monitor of chain c reads one item of its chain and, unless it passes
\* the item over, holds the event for the insert
Observe(c, item, out) ==
    /\ monitors[c].pc = "poll"
    /\ monitors' = [monitors EXCEPT ![c] = observed(@, out)]
    /\ last' = [op |-> "process", res |-> out.res, call |-> [chain |-> c, item |-> item]]
    /\ UNCHANGED <<ledger, submitter>>
    /\ UNCHANGED vault

SolanaObserve(tx) == Observe("Solana", tx, solana_process_transaction(tx, ledger))

EthereumObserve(log) == Observe("Ethereum", log, ethereum_process_log(log, ledger))

\* handle_event: the monitor of chain c inserts the event it holds
HandleEvent(c) ==
    /\ monitors[c].pc = "insert"
    /\ LET e == monitors[c].event[1]
           out == create_transaction(ledger, e.nonce, e.from_chain, e.to_chain, e.tx_hash,
                                     e.sender, e.recipient, e.amount)
       IN  /\ ledger' = out.db
           /\ last' = [op |-> "handle_event", res |-> out.res, call |-> [chain |-> c, item |-> e]]
    /\ monitors' = [monitors EXCEPT ![c].pc = "poll", ![c].event = None]
    /\ UNCHANGED submitter
    /\ UNCHANGED vault

\* the transactions of the vault program the Solana monitor is shown
LockLog(user, amount, destination_chain, nonce) ==
    Some([user |-> user, amount |-> amount, destination_chain |-> destination_chain,
          destination_address |-> [len |-> 32, id |-> DestinationAddress], nonce |-> nonce])

SolanaTransactions ==
    {[signature |-> "s1", err |-> FALSE, log_messages |-> LockLog("U1", 995000000, 1, 0)],
     [signature |-> "s2", err |-> FALSE, log_messages |-> LockLog("U2", 995000000, 2, 1)],
     [signature |-> "s3", err |-> FALSE, log_messages |-> LockLog("U1", 995000000, 3, 2)],
     [signature |-> "s4", err |-> TRUE, log_messages |-> LockLog("U1", 995000000, 1, 3)],
     [signature |-> "s5", err |-> FALSE, log_messages |-> None]}

\* the logs of the bridge contract the Ethereum monitor is shown: a burn
\* with the nonce of a lock, two burns of one transaction, a burn to an
\* address that is no Solana key, and a log that does not decode
BurnLog(transaction_hash, nonce, solanaAddress) ==
    [decodes |-> TRUE, transaction_hash |-> transaction_hash, sender |-> "0xS1", amount |-> 500,
     nonce |-> nonce, solanaAddress |-> solanaAddress]

EthereumLogs ==
    {BurnLog("e1", 0, Spelled("base58", 32, "U1")),
     BurnLog("e2", 5, Spelled("base58", 32, "U2")),
     BurnLog("e2", 6, Spelled("base58", 32, "U1")),
     BurnLog("e3", 7, Spelled("other", 0, "")),
     [BurnLog("e4", 8, Spelled("base58", 32, "U1")) EXCEPT !.decodes = FALSE]}

NextLedger ==
    \/ \E tx \in SolanaTransactions : SolanaObserve(tx)
    \/ \E log \in EthereumLogs : EthereumObserve(log)
    \/ \E c \in MonitoredChains : HandleEvent(c)

\* the two monitors over a relayer as main starts it
InitLedger ==
    /\ VaultDeployed
    /\ last = NoCall
    /\ RelayerStarted({1, 2})

SpecLedger == InitLedger /\ [][NextLedger]_vars

-----------------------------------------------------------------------------
(* The signature aggregator: validator_client.rs *)

\* the bytes fed to a hash, as the sequence of the pieces written to it:
\* the UTF-8 bytes of a string, a u64 in little or big endian, a 256-bit
\* number in big endian, raw bytes
as_bytes(string) == <<"utf8", string>>
to_le_bytes(u64) == <<"le64", u64>>
to_be_bytes(u64) == <<"be64", u64>>
to_be_bytes_32(u64) == <<"be256", u64>>
as_slice(bytes) == <<"raw", bytes>>

\* Address::from_str: a hex string, with or without 0x, of 20 bytes
Address_from_str(string) ==
    IF string.text \in {"0xhex", "hex"} /\ string.bytes.len = 20 THEN Some(string.bytes) ELSE None

\* Pubkey::from_str: a base58 string of 32 bytes
Pubkey_from_str(string) ==
    IF string.text = "base58" /\ string.bytes.len = 32 THEN Some(string.bytes) ELSE None

\* Keccak256 over recipient, amount, nonce, sender, kept as its preimage
create_ethereum_message_hash(recipient, amount, nonce, solana_sender) ==
    [hash |-> "keccak256",
     data |-> <<as_slice(recipient), to_be_bytes_32(U64(amount)), to_be_bytes(U64(nonce)),
                as_bytes(solana_sender)>>]

\* SHA-256 over recipient, amount, nonce, sender, kept as its preimage
create_solana_message_hash(recipient, amount, nonce, ethereum_sender) ==
    [hash |-> "sha256",
     data |-> <<as_bytes(recipient), to_le_bytes(U64(amount)), to_le_bytes(U64(nonce)),
                as_bytes(ethereum_sender)>>]

\* signatures_of that asks every validator, endpoint or not; a variant
\* OneSignaturePerEndpoint must tell from the code
signatures_of_every_validator(validators, address_field, message_hash) ==
    [i \in 1..Len(validators) |->
        [validator_address |-> validators[i][address_field],
         signature |-> [form |-> "0xhex", of |-> message_hash]]]

\* one ValidatorSignature per validator that has an endpoint, its signature
\* the hex of the message hash
signatures_of(validators, address_field, message_hash) ==
    LET with_endpoint == SelectSeq(validators, LAMBDA v : v.endpoint # None)
    IN  [i \in 1..Len(with_endpoint) |->
            [validator_address |-> with_endpoint[i][address_field],
             signature |-> [form |-> "0xhex", of |-> message_hash]]]

\* collect_signatures_for_ethereum_mint and collect_signatures_for_solana_unlock:
\* the signatures, or InsufficientSignatures when there is none
collect_signatures_for_ethereum_mint(validators, recipient, amount, nonce, solana_sender) ==
    LET signatures == signatures_of(validators, "eth_address",
                          create_ethereum_message_hash(recipient, amount, nonce, solana_sender))
    IN  IF Len(signatures) = 0
        THEN [res |-> "InsufficientSignatures", expected |-> Len(validators), got |-> 0,
              signatures |-> <<>>]
        ELSE [res |-> "Ok", expected |-> Len(validators), got |-> Len(signatures),
              signatures |-> signatures]

collect_signatures_for_solana_unlock(validators, recipient, amount, nonce, ethereum_sender) ==
    LET signatures == signatures_of(validators, "sol_public_key",
                          create_solana_message_hash(recipient, amount, nonce, ethereum_sender))
    IN  IF Len(signatures) = 0
        THEN [res |-> "InsufficientSignatures", expected |-> Len(validators), got |-> 0,
              signatures |-> <<>>]
        ELSE [res |-> "Ok", expected |-> Len(validators), got |-> Len(signatures),
              signatures |-> signatures]

-----------------------------------------------------------------------------
(* The submitter: transaction_submitter.rs and process_transactions of main.rs *)

\* serde_json::to_string of the signatures and serde_json::from_str of a
\* stored text: the text holds what was serialized
to_string(signatures) == [json |-> signatures]
from_str(text) == text.json

\* collect_signatures_written that leaves the status Pending; a variant
\* PendingStep must tell from the code
collect_signatures_written_pending(db, id, signatures) ==
    [db EXCEPT ![id].signatures = Some(to_string(signatures))]

\* the write that ends collect_signatures
collect_signatures_written(db, id, signatures) == update_signatures(db, id, to_string(signatures))

\* collect_signatures of row tx: [res, db]
collect_signatures(tx, db, sub) ==
    IF tx.to_chain = "Ethereum"
    THEN IF Address_from_str(tx.recipient) = None THEN [res |-> "ParseError", db |-> db]
         ELSE LET out == collect_signatures_for_ethereum_mint(
                             sub.validators, Address_from_str(tx.recipient)[1], tx.amount,
                             tx.nonce, tx.sender)
              IN  IF out.res # "Ok" THEN [res |-> out.res, db |-> db]
                  ELSE [res |-> "Ok", db |-> collect_signatures_written(db, tx.id, out.signatures)]
    ELSE IF tx.to_chain = "Solana"
    THEN LET out == collect_signatures_for_solana_unlock(
                        sub.validators, tx.recipient, tx.amount, tx.nonce, tx.sender)
         IN  IF out.res # "Ok" THEN [res |-> out.res, db |-> db]
             ELSE [res |-> "Ok", db |-> collect_signatures_written(db, tx.id, out.signatures)]
    ELSE [res |-> "InvalidChain", db |-> db]

\* submit_to_ethereum and submit_to_solana: the hash of the destination
\* transaction, made of the nonce
submit_to_ethereum(tx, sub) ==
    IF sub.relayer_eth_signer = None THEN [res |-> "ConfigError", tx_hash |-> None]
    ELSE IF Address_from_str(tx.recipient) = None THEN [res |-> "ParseError", tx_hash |-> None]
    ELSE [res |-> "Ok", tx_hash |-> Some([form |-> "0xhex", of |-> tx.nonce])]

submit_to_solana(tx, sub) ==
    IF sub.relayer_sol_keypair = None THEN [res |-> "ConfigError", tx_hash |-> None]
    ELSE IF Pubkey_from_str(tx.recipient) = None THEN [res |-> "ParseError", tx_hash |-> None]
    ELSE [res |-> "Ok", tx_hash |-> Some([form |-> "solana_tx_", of |-> tx.nonce])]

\* record_submission that writes the row back as Pending; a variant
\* StatusMovesForward must tell from the code
record_submission_as_pending(db, id, tx_hash) ==
    update_transaction_status(db, id, "Pending", tx_hash, None)

\* the write that ends submit_to_destination
record_submission(db, id, tx_hash) ==
    update_transaction_status(db, id, "Submitted", tx_hash, None)

\* submit_to_destination of row tx: [res, db]
submit_to_destination(tx, db, sub) ==
    IF tx.signatures = None THEN [res |-> "InvalidSignature", db |-> db]
    ELSE IF tx.to_chain = "Sui" THEN [res |-> "InvalidChain", db |-> db]
    ELSE LET out == IF tx.to_chain = "Ethereum" THEN submit_to_ethereum(tx, sub)
                    ELSE submit_to_solana(tx, sub)
         IN  IF out.res # "Ok" THEN [res |-> out.res, db |-> db]
             ELSE [res |-> "Ok", db |-> record_submission(db, tx.id, out.tx_hash)]

\* check_ethereum_confirmation: the hash must be hex; the answer is always false
check_ethereum_confirmation(tx_hash) ==
    IF tx_hash.form # "0xhex" THEN [res |-> "ParseError", is_confirmed |-> FALSE]
    ELSE [res |-> "Ok", is_confirmed |-> FALSE]

\* check_solana_confirmation: the hash must be a base58 signature; the answer
\* is true when the chain reports the transaction with no error
check_solana_confirmation(tx_hash, signature_status) ==
    IF tx_hash.form # "base58" THEN [res |-> "ParseError", is_confirmed |-> FALSE]
    ELSE [res |-> "Ok", is_confirmed |-> (signature_status = "finalized")]

\* check_confirmation of row tx, the destination chain answering
\* signature_status: [res, db]
check_confirmation(tx, db, signature_status) ==
    IF tx.to_tx_hash = None THEN [res |-> "Ok", db |-> db]
    ELSE IF tx.to_chain = "Sui" THEN [res |-> "InvalidChain", db |-> db]
    ELSE LET out == IF tx.to_chain = "Ethereum" THEN check_ethereum_confirmation(tx.to_tx_hash[1])
                    ELSE check_solana_confirmation(tx.to_tx_hash[1], signature_status)
         IN  IF out.res # "Ok" THEN [res |-> out.res, db |-> db]
             ELSE IF out.is_confirmed
                  THEN [res |-> "Ok",
                        db |-> update_transaction_status(db, tx.id, "Confirmed", None, None)]
             ELSE [res |-> "Ok", db |-> db]

\* process_transaction: one step on row tx as it was read, by its status
process_transaction(tx, db, sub, signature_status) ==
    CASE tx.status = "Pending" -> collect_signatures(tx, db, sub)
      [] tx.status = "SignaturesCollected" -> submit_to_destination(tx, db, sub)
      [] tx.status = "Submitted" -> check_confirmation(tx, db, signature_status)
      [] tx.status \in {"Confirmed", "Failed"} -> [res |-> "Ok", db |-> db]

\* what the destination chain answers to get_signature_status
SignatureStatuses == {"finalized", "failed", "not_found", "rpc_error"}

\* process_transactions, at a tick: the rows to process are read
SubmitterTick ==
    /\ submitter.pc = "tick"
    /\ LET pending == get_pending_transactions(ledger)
       IN  submitter' = [submitter EXCEPT !.queue = pending,
                                          !.pc = IF pending = <<>> THEN "tick" ELSE "run"]
    /\ last' = [op |-> "tick", res |-> "Ok", call |-> get_pending_transactions(ledger)]
    /\ UNCHANGED <<ledger, monitors>>
    /\ UNCHANGED vault

\* after_row that leaves process_transactions at the first error, as a ? in
\* the loop would; a variant ErrorsDoNotStopSubmitter must tell from the code
after_row_returning_on_error(sub, res) ==
    IF res # "Ok" THEN [sub EXCEPT !.queue = <<>>, !.pc = "ended"]
    ELSE [sub EXCEPT !.queue = Tail(@),
                     !.pc = IF Tail(sub.queue) = <<>> THEN "tick" ELSE "run"]

\* the loop over the rows read, after a row was processed with result res:
\* Ok and Err are both logged and the loop goes on to the next row, or to
\* the next tick after the last
after_row(sub, res) ==
    [sub EXCEPT !.queue = Tail(@),
                !.pc = IF Tail(sub.queue) = <<>> THEN "tick" ELSE "run"]

\* process_transactions, in the loop over the rows read: the next row is
\* processed; an error is logged and the loop goes on
SubmitterProcess(signature_status) ==
    /\ submitter.pc = "run"
    /\ LET tx == Head(submitter.queue)
           out == process_transaction(tx, ledger, submitter, signature_status)
       IN  /\ ledger' = out.db
           /\ last' = [op |-> "process_transaction", res |-> out.res, call |-> tx]
    /\ submitter' = after_row(submitter,
                               process_transaction(Head(submitter.queue), ledger, submitter,
                                                   signature_status).res)
    /\ UNCHANGED monitors
    /\ UNCHANGED vault

\* set_ethereum_signer and set_solana_keypair on a new submitter
SubmitterKeyed(endpoints) ==
    [SubmitterNew(endpoints) EXCEPT !.relayer_eth_signer = Some("eth_signer"),
                                    !.relayer_sol_keypair = Some("sol_keypair")]

\* the items shown to the monitors beside a running submitter: a lock for
\* Ethereum, a lock for Sui, a burn to a Solana key and a burn to an address
\* that is no Solana key
RelaySolanaTransactions ==
    {[signature |-> "s1", err |-> FALSE, log_messages |-> LockLog("U1", 995000000, 1, 0)],
     [signature |-> "s2", err |-> FALSE, log_messages |-> LockLog("U2", 995000000, 2, 1)]}

RelayEthereumLogs ==
    {BurnLog("e2", 5, Spelled("base58", 32, "U2")),
     BurnLog("e3", 7, Spelled("other", 0, ""))}

NextRelay ==
    \/ \E tx \in RelaySolanaTransactions : SolanaObserve(tx)
    \/ \E log \in RelayEthereumLogs : EthereumObserve(log)
    \/ \E c \in MonitoredChains : HandleEvent(c)
    \/ SubmitterTick
    \/ \E signature_status \in SignatureStatuses : SubmitterProcess(signature_status)

\* the whole relayer: as main starts it, with and without validator
\* endpoints, and with the relayer keys set
InitRelay ==
    /\ VaultDeployed
    /\ last = NoCall
    /\ ledger = <<>>
    /\ monitors = [c \in MonitoredChains |-> MonitorIdle]
    /\ submitter \in {SubmitterNew({1, 2}), SubmitterNew({}), SubmitterKeyed({1, 2})}

SpecRelay == InitRelay /\ [][NextRelay]_vars

\* the relayer with validator endpoints and relayer keys, every task of
\* main scheduled again and again
InitRelayFair ==
    /\ VaultDeployed
    /\ last = NoCall
    /\ ledger = <<>>
    /\ monitors = [c \in MonitoredChains |-> MonitorIdle]
    /\ submitter = SubmitterKeyed({1, 2})

SpecRelayFair ==
    /\ InitRelayFair
    /\ [][NextRelay]_vars
    /\ WF_vars(\E tx \in RelaySolanaTransactions : SolanaObserve(tx))
    /\ WF_vars(\E log \in RelayEthereumLogs : EthereumObserve(log))
    /\ \A c \in MonitoredChains : WF_vars(HandleEvent(c))
    /\ WF_vars(SubmitterTick)
    /\ WF_vars(\E signature_status \in SignatureStatuses : SubmitterProcess(signature_status))

\* process_transaction called on row i of the ledger as it is stored, the
\* destination chain answering signature_status
ProcessRow(i, signature_status) ==
    /\ LET out == process_transaction(ledger[i], ledger, submitter, signature_status)
       IN  /\ ledger' = out.db
           /\ last' = [op |-> "process_row", res |-> out.res,
                       call |-> [tx |-> ledger[i], signature_status |-> signature_status]]
    /\ UNCHANGED <<monitors, submitter>>
    /\ UNCHANGED vault

\* the monitors and a caller that hands any row to process_transaction
NextPoll ==
    \/ \E tx \in RelaySolanaTransactions : SolanaObserve(tx)
    \/ \E log \in RelayEthereumLogs : EthereumObserve(log)
    \/ \E c \in MonitoredChains : HandleEvent(c)
    \/ \E i \in 1..Len(ledger) :
          \E signature_status \in SignatureStatuses : ProcessRow(i, signature_status)

SpecPoll == InitRelayFair /\ [][NextPoll]_vars

\* the endpoints the configuration may give the three validators
EndpointSets == SUBSET {1, 2, 3}

\* collect_signatures_for_ethereum_mint or collect_signatures_for_solana_unlock
\* called with the validators of the configuration
CollectSignatures(destination, recipient, amount, nonce, sender) ==
    /\ LET out == IF destination = "Ethereum"
                  THEN collect_signatures_for_ethereum_mint(
                           submitter.validators, recipient, amount, nonce, sender)
                  ELSE collect_signatures_for_solana_unlock(
                           submitter.validators, recipient, amount, nonce, sender)
       IN  last' = [op |-> "collect", res |-> out.res,
                    call |-> [destination |-> destination, nonce |-> nonce, amount |-> amount,
                              out |-> out]]
    /\ UNCHANGED relay
    /\ UNCHANGED vault

NextCollect ==
    \/ \E amount \in {500, 995000000}, nonce \in 0..3 :
          CollectSignatures("Ethereum", [len |-> 20, id |-> "0xR1"], amount, nonce,
                            Spelled("base58", 32, "U1"))
    \/ \E amount \in {500, 995000000}, nonce \in 0..3 :
          CollectSignatures("Solana", Spelled("base58", 32, "U2"), amount, nonce,
                            Spelled("0xhex", 20, "0xS1"))

\* the aggregator under every configuration of validator endpoints
InitCollect ==
    /\ VaultDeployed
    /\ last = NoCall
    /\ ledger = <<>>
    /\ monitors = [c \in MonitoredChains |-> MonitorIdle]
    /\ \E endpoints \in EndpointSets : submitter = SubmitterNew(endpoints)

SpecCollect == InitCollect /\ [][NextCollect]_vars

-----------------------------------------------------------------------------
(* The polling loops of the monitors: start, poll_for_transactions and     *)
(* poll_for_events                                                          *)

\* the Solana monitor before start: poll_for_transactions has no
\* last_signature and no signatures at hand
SolanaMonitorNew ==
    [pc |-> "start", event |-> None, last_signature |-> None, batch |-> <<>>]

\* the Ethereum monitor before start, with the confirmations of the
\* configuration; start_block and last_block are set by start,
\* current_block is the height
\* get_block_number returned last, from_block..to_block the range of the
\* filter of the scan under way
EthereumMonitorNew(confirmations) ==
    [pc |-> "start", event |-> None, confirmations |-> confirmations,
     start_block |-> 0, last_block |-> 0, current_block |-> 0, from_block |-> 0,
     to_block |-> 0,
     scanning |-> FALSE, batch |-> <<>>]

\* ETHEREUM_CONFIRMATIONS of the configuration
ConfirmationDepths == {0, 2}

\* the heights get_block_number may return
BlockHeights == 0..5

\* what get_signatures_for_address may return, newest first: a signature
\* string with whether Signature::from_str accepts it
SigInfo(signature) == [signature |-> signature, parses |-> TRUE]

SolanaSignatureLists ==
    {<<>>,
     <<SigInfo("s1")>>,
     <<SigInfo("s3"), SigInfo("s1")>>,
     <<SigInfo("s2"), SigInfo("s3"), SigInfo("s1")>>,
     <<SigInfo("s2"), [signature |-> "bad", parses |-> FALSE], SigInfo("s1")>>}

\* signatures.iter().rev()
Reversed(seq) == [k \in 1..Len(seq) |-> seq[Len(seq) + 1 - k]]

\* the transaction get_transaction_with_config returns for a signature
SolanaTransactionOf(signature) == CHOOSE tx \in SolanaTransactions : tx.signature = signature

\* the logs of the bridge contract in each block of the Ethereum chain
EthereumLogsOfBlock(block) ==
    CASE block = 1 -> <<BurnLog("e1", 0, Spelled("base58", 32, "U1"))>>
      [] block = 2 -> <<[BurnLog("e4", 8, Spelled("base58", 32, "U1")) EXCEPT !.decodes = FALSE],
                        BurnLog("e2", 5, Spelled("base58", 32, "U2")),
                        BurnLog("e2", 6, Spelled("base58", 32, "U1"))>>
      [] block = 4 -> <<BurnLog("e3", 7, Spelled("other", 0, ""))>>
      [] OTHER -> <<>>

\* get_logs for the filter from_block..to_block
RECURSIVE get_logs(_, _)
get_logs(from_block, to_block) ==
    IF from_block > to_block THEN <<>>
    ELSE EthereumLogsOfBlock(from_block) \o get_logs(from_block + 1, to_block)

\* SolanaMonitor::start: get_slot fails and start returns the error, which
\* ends the task, or poll_for_transactions begins
SolanaStart(reachable) ==
    /\ monitors["Solana"].pc = "start"
    /\ monitors' = [monitors EXCEPT !["Solana"].pc = IF reachable THEN "poll" ELSE "ended"]
    /\ last' = [op |-> "start", res |-> IF reachable THEN "Ok" ELSE "SolanaRpcError",
                call |-> [chain |-> "Solana"]]
    /\ UNCHANGED <<ledger, submitter>>
    /\ UNCHANGED vault

\* poll_for_transactions, at the head of the loop: the signatures are
\* fetched; an error is logged and the loop sleeps and goes on
SolanaFetch(reachable, signatures) ==
    /\ monitors["Solana"].pc = "poll"
    /\ monitors["Solana"].batch = <<>>
    /\ monitors' = [monitors EXCEPT !["Solana"].batch =
                        IF reachable THEN Reversed(signatures) ELSE <<>>]
    /\ last' = [op |-> "fetch", res |-> IF reachable THEN "Ok" ELSE "SolanaRpcError",
                call |-> [chain |-> "Solana"]]
    /\ UNCHANGED <<ledger, submitter>>
    /\ UNCHANGED vault

\* poll_for_transactions, in the loop over the signatures: a string that is
\* no signature makes poll_for_transactions return the error, which ends
\* the task; the signature processed last is passed over; any other is
\* processed, an error of process_transaction (the transaction cannot be
\* fetched, its logs do not parse) is logged, and it becomes last_signature
SolanaItem(fetched) ==
    /\ monitors["Solana"].pc = "poll"
    /\ monitors["Solana"].batch # <<>>
    /\ LET sig_info == Head(monitors["Solana"].batch)
           out == IF ~fetched THEN [res |-> "SolanaRpcError", event |-> None]
                  ELSE solana_process_transaction(SolanaTransactionOf(sig_info.signature), ledger)
       IN  IF ~sig_info.parses
           THEN /\ monitors' = [monitors EXCEPT !["Solana"].pc = "ended"]
                /\ last' = [op |-> "item", res |-> "ParseError",
                            call |-> [chain |-> "Solana", item |-> sig_info]]
           ELSE IF monitors["Solana"].last_signature = Some(sig_info.signature)
           THEN /\ monitors' = [monitors EXCEPT !["Solana"].batch = Tail(@)]
                /\ last' = [op |-> "item", res |-> "Continue",
                            call |-> [chain |-> "Solana", item |-> sig_info]]
           ELSE /\ monitors' = [monitors EXCEPT !["Solana"] =
                                    [observed(@, out) EXCEPT
                                        !.batch = Tail(@),
                                        !.last_signature = Some(sig_info.signature)]]
                /\ last' = [op |-> "item", res |-> out.res,
                            call |-> [chain |-> "Solana", item |-> sig_info]]
    /\ UNCHANGED <<ledger, submitter>>
    /\ UNCHANGED vault

\* scan_to_block that scans up to the head of the chain; a variant
\* CheckpointAdvancesBehindFinality must tell from the code
scan_to_block_at_head(current_block, confirmations) == current_block

\* the last block of a scan: current_block - confirmations
scan_to_block(current_block, confirmations) == current_block - confirmations

\* EthereumMonitor::start: get_block_number fails and start returns the
\* error, which ends the task, or poll_for_events begins with last_block the
\* block number returned
EthereumStart(reachable, latest_block) ==
    /\ monitors["Ethereum"].pc = "start"
    /\ monitors' = [monitors EXCEPT !["Ethereum"] =
                        IF reachable
                        THEN [@ EXCEPT !.pc = "poll", !.start_block = latest_block,
                                       !.last_block = latest_block,
                                       !.current_block = latest_block]
                        ELSE [@ EXCEPT !.pc = "ended"]]
    /\ last' = [op |-> "start", res |-> IF reachable THEN "Ok" ELSE "EthereumRpcError",
                call |-> [chain |-> "Ethereum"]]
    /\ UNCHANGED <<ledger, submitter>>
    /\ UNCHANGED vault

\* poll_for_events, at the head of the loop: get_block_number fails and the
\* loop sleeps and goes on; or the block number does not exceed last_block +
\* confirmations and nothing is scanned; or the logs of last_block + 1 ..
\* current_block - confirmations are asked for, and a failure of get_logs is
\* logged
EthereumPoll(reachable, current_block, logs_fetched) ==
    /\ monitors["Ethereum"].pc = "poll"
    /\ ~monitors["Ethereum"].scanning
    /\ current_block >= monitors["Ethereum"].current_block
    /\ LET m == monitors["Ethereum"]
           to_block == scan_to_block(current_block, m.confirmations)
       IN  IF ~reachable
           THEN /\ monitors' = monitors
                /\ last' = [op |-> "fetch", res |-> "EthereumRpcError",
                            call |-> [chain |-> "Ethereum"]]
           ELSE IF ~(current_block > m.last_block + m.confirmations)
           THEN /\ monitors' = [monitors EXCEPT !["Ethereum"].current_block = current_block]
                /\ last' = [op |-> "fetch", res |-> "Nothing", call |-> [chain |-> "Ethereum"]]
           ELSE IF ~logs_fetched
           THEN /\ monitors' = [monitors EXCEPT !["Ethereum"].current_block = current_block]
                /\ last' = [op |-> "fetch", res |-> "EthereumRpcError",
                            call |-> [chain |-> "Ethereum"]]
           ELSE /\ monitors' = [monitors EXCEPT !["Ethereum"] =
                                    [@ EXCEPT !.current_block = current_block,
                                              !.from_block = m.last_block + 1,
                                              !.to_block = to_block,
                                              !.scanning = TRUE,
                                              !.batch = get_logs(m.last_block + 1, to_block)]]
                /\ last' = [op |-> "fetch", res |-> "Ok", call |-> [chain |-> "Ethereum"]]
    /\ UNCHANGED <<ledger, submitter>>
    /\ UNCHANGED vault

\* poll_for_events, in the loop over the logs: the log is processed and an
\* error of process_log is logged
EthereumItem ==
    /\ monitors["Ethereum"].pc = "poll"
    /\ monitors["Ethereum"].scanning
    /\ monitors["Ethereum"].batch # <<>>
    /\ LET log == Head(monitors["Ethereum"].batch)
           out == ethereum_process_log(log, ledger)
       IN  /\ monitors' = [monitors EXCEPT !["Ethereum"] =
                               [observed(@, out) EXCEPT !.batch = Tail(@)]]
           /\ last' = [op |-> "item", res |-> out.res,
                       call |-> [chain |-> "Ethereum", item |-> log]]
    /\ UNCHANGED <<ledger, submitter>>
    /\ UNCHANGED vault

\* poll_for_events, after the loop over the logs: last_block = to_block
EthereumAdvance ==
    /\ monitors["Ethereum"].pc = "poll"
    /\ monitors["Ethereum"].scanning
    /\ monitors["Ethereum"].batch = <<>>
    /\ monitors' = [monitors EXCEPT !["Ethereum"].last_block = monitors["Ethereum"].to_block,
                                    !["Ethereum"].scanning = FALSE]
    /\ last' = [op |-> "advance", res |-> "Ok", call |-> [chain |-> "Ethereum"]]
    /\ UNCHANGED <<ledger, submitter>>
    /\ UNCHANGED vault

NextMonitors ==
    \/ \E reachable \in BOOLEAN : SolanaStart(reachable)
    \/ \E reachable \in BOOLEAN, signatures \in SolanaSignatureLists :
          SolanaFetch(reachable, signatures)
    \/ \E fetched \in BOOLEAN : SolanaItem(fetched)
    \/ \E reachable \in BOOLEAN, latest_block \in BlockHeights :
          EthereumStart(reachable, latest_block)
    \/ \E reachable \in BOOLEAN, current_block \in BlockHeights, logs_fetched \in BOOLEAN :
          EthereumPoll(reachable, current_block, logs_fetched)
    \/ EthereumItem
    \/ EthereumAdvance
    \/ \E c \in MonitoredChains : HandleEvent(c)

\* the relayer as main starts it, neither monitor started yet
InitMonitors ==
    /\ VaultDeployed
    /\ last = NoCall
    /\ ledger = <<>>
    /\ \E confirmations \in ConfirmationDepths :
          monitors = [c \in MonitoredChains |->
                         IF c = "Solana" THEN SolanaMonitorNew
                         ELSE EthereumMonitorNew(confirmations)]
    /\ submitter = SubmitterNew({1, 2})

SpecMonitors == InitMonitors /\ [][NextMonitors]_vars

\* the three futures awaited one after the other, each only when the one
\* before it has returned; a variant TasksNeverBlocked must tell from the
\* code
awaited_in_turn(task) ==
    CASE task = "Solana" -> TRUE
      [] task = "Ethereum" -> monitors["Solana"].pc = "ended"
      [] task = "Submitter" -> monitors["Solana"].pc = "ended" /\ monitors["Ethereum"].pc = "ended"

\* tokio::join! of the three futures: each is polled whenever it can go on,
\* whatever the other two are waiting for
joined(task) == TRUE

\* what get_signatures_for_address returns beside the other tasks
TaskSignatureLists == {<<>>, <<SigInfo("s1")>>, <<SigInfo("s2"), SigInfo("s1")>>}

\* the steps of each task of main
SolanaTask ==
    /\ joined("Solana")
    /\ \/ \E reachable \in BOOLEAN : SolanaStart(reachable)
       \/ \E reachable \in BOOLEAN, signatures \in TaskSignatureLists :
             SolanaFetch(reachable, signatures)
       \/ \E fetched \in BOOLEAN : SolanaItem(fetched)
       \/ HandleEvent("Solana")

EthereumTask ==
    /\ joined("Ethereum")
    /\ \/ \E reachable \in BOOLEAN, latest_block \in BlockHeights :
             EthereumStart(reachable, latest_block)
       \/ \E reachable \in BOOLEAN, current_block \in BlockHeights, logs_fetched \in BOOLEAN :
             EthereumPoll(reachable, current_block, logs_fetched)
       \/ EthereumItem
       \/ EthereumAdvance
       \/ HandleEvent("Ethereum")

SubmitterTask ==
    /\ joined("Submitter")
    /\ \/ SubmitterTick
       \/ \E signature_status \in SignatureStatuses : SubmitterProcess(signature_status)

NextTasks ==
    \/ SolanaTask
    \/ EthereumTask
    \/ SubmitterTask

\* the relayer as main starts it, with two confirmations
InitTasks ==
    /\ VaultDeployed
    /\ last = NoCall
    /\ ledger = <<>>
    /\ monitors = [c \in MonitoredChains |->
                      IF c = "Solana" THEN SolanaMonitorNew ELSE EthereumMonitorNew(2)]
    /\ submitter = SubmitterNew({1, 2})

SpecTasks == InitTasks /\ [][NextTasks]_vars

-----------------------------------------------------------------------------
(* The admin instructions beside locks and unlocks *)

NextGovern ==
    \/ Initialize(InitializeOk)
    \/ \E u \in Users : LockTokens(LockOk(u))
    \/ \E a \in DOMAIN user_bridge_states : UnlockTokens(UnlockOk(a, "R1"))
    \/ \E c \in AdminUpdateConfigCalls : UpdateConfig(c)
    \/ \E c \in AdminPauseCalls : Pause(c)
    \/ \E c \in AdminPauseCalls : Unpause(c)

SpecGovern == Init /\ [][NextGovern]_vars

-----------------------------------------------------------------------------
(* The relayer beside the vault it releases from *)

NextQuorum ==
    \/ Initialize(InitializeOk)
    \/ NextRelay

\* the relayer with its keys set under every configuration of validator
\* endpoints, the vault not yet initialized
InitQuorum ==
    /\ VaultDeployed
    /\ last = NoCall
    /\ ledger = <<>>
    /\ monitors = [c \in MonitoredChains |-> MonitorIdle]
    /\ \E endpoints \in EndpointSets : submitter = SubmitterKeyed(endpoints)

SpecQuorum == InitQuorum /\ [][NextQuorum]_vars

-----------------------------------------------------------------------------
(* check_confirmation on a row whose destination transaction is on chain *)

\* the ledger with one row taken to Submitted by create_transaction,
\* collect_signatures and submit_to_destination, its to_tx_hash the signature
\* of a Solana transaction where submit_to_solana returns its placeholder
SubmittedOnChain ==
    LET tx == [nonce |-> 9, sender |-> Spelled("0xhex", 20, "0xS1"),
               recipient |-> Spelled("base58", 32, "U1"), amount |-> 500]
        created == create_transaction(<<>>, tx.nonce, "Ethereum", "Solana", "e9",
                                      tx.sender, tx.recipient, tx.amount).db
        collected == collect_signatures(created[1], created, SubmitterKeyed({1, 2})).db
    IN  record_submission(collected, 1, Some([form |-> "base58", of |-> tx.nonce]))

InitConfirm ==
    /\ VaultDeployed
    /\ last = NoCall
    /\ ledger = SubmittedOnChain
    /\ monitors = [c \in MonitoredChains |-> MonitorIdle]
    /\ submitter = SubmitterKeyed({1, 2})

SpecConfirm == InitConfirm /\ [][NextPoll]_vars

-----------------------------------------------------------------------------
(* Properties *)

Initialized == bridge_config.owner = PROGRAM_ID

ValidatorKeys == {bridge_config.data.validators[i] : i \in 1..Len(bridge_config.data.validators)}

\* the positions of the supplied signatures that a configured validator made
\* over the release message of lock record r
Endorsing(signatures, r) ==
    {i \in 1..Len(signatures) :
        /\ signatures[i].signer \in ValidatorKeys
        /\ signatures[i].message.data =
               <<<<"raw", [len |-> 7, id |-> "unlock:"]>>, <<"le64", U64(r.nonce)>>,
                 <<"raw", [len |-> 32, id |-> r.user]>>, <<"le64", r.locked_amount>>>>}

\* unlock call c gets as far as the signature check on lock record r
ReachesSignatureCheck(c, r) ==
    /\ c.is_signer
    /\ c.relayer_account = bridge_config.data.relayer_authority
    /\ c.nonce = r.nonce
    /\ ~r.unlocked /\ r.status = "Pending"
    /\ c.user_account = r.user
    /\ c.vault_pda_account = VaultPda.key

\* C1: once a lock record has been unlocked, every later UnlockTokens for its
\* nonce fails and changes no account (no funds move, the record and
\* total_locked stay); the relayer's repeat of the unlock on that record
\* fails with AlreadyUnlocked.
UnlockAtMostOnce ==
    [][(/\ last'.op = "UnlockTokens"
        /\ \E a \in DOMAIN user_bridge_states :
              /\ user_bridge_states[a].unlocked
              /\ user_bridge_states[a].nonce = last'.call.nonce)
       => /\ last'.res # "Ok"
          /\ UNCHANGED <<bridge_config, user_bridge_states, token_accounts>>
          /\ (/\ last'.call.is_signer
              /\ last'.call.relayer_account = bridge_config.data.relayer_authority
              /\ last'.call.user_bridge_state_account \in DOMAIN user_bridge_states
              /\ user_bridge_states[last'.call.user_bridge_state_account].nonce = last'.call.nonce)
             => last'.res = "AlreadyUnlocked"]_vars

\* a second unlock of an unlocked record was attempted by the relayer
SecondUnlockRejected ==
    /\ last.op = "UnlockTokens" /\ last.res = "AlreadyUnlocked"
    /\ Len(last.call.signatures) >= bridge_config.data.validator_threshold

\* C2: UnlockTokens succeeds only if at least threshold of the supplied
\* signatures verify under a configured validator key over the release
\* message; with fewer the call fails, with ThresholdNotMet once it reaches
\* the signature check, whatever the number supplied, and changes nothing.
ThresholdEnforced ==
    [][(/\ last'.op = "UnlockTokens"
        /\ last'.call.user_bridge_state_account \in DOMAIN user_bridge_states)
       => LET c == last'.call
              r == user_bridge_states[c.user_bridge_state_account]
              m == Cardinality(Endorsing(c.signatures, r))
          IN  /\ last'.res = "Ok" => m >= bridge_config.data.validator_threshold
              /\ m < bridge_config.data.validator_threshold
                 => /\ last'.res # "Ok"
                    /\ UNCHANGED <<bridge_config, user_bridge_states, token_accounts>>
                    /\ ReachesSignatureCheck(c, r) => last'.res = "ThresholdNotMet"]_vars

\* an unlock with at least threshold signatures supplied, too few of them a
\* validator's, was rejected
EnoughSuppliedTooFewValid ==
    /\ last.op = "UnlockTokens" /\ last.res = "ThresholdNotMet"
    /\ Len(last.call.signatures) >= bridge_config.data.validator_threshold
    /\ \E i \in 1..Len(last.call.signatures) : last.call.signatures[i].signer = "X"

\* C3: whenever UnlockTokens succeeds, at least threshold distinct configured
\* validators have signed the release message.
DistinctValidatorsEndorse ==
    (last.op = "UnlockTokens" /\ last.res = "Ok")
    => LET c == last.call
           r == user_bridge_states[c.user_bridge_state_account]
       IN  Cardinality({c.signatures[i].signer : i \in Endorsing(c.signatures, r)})
               >= bridge_config.data.validator_threshold

\* unlock call c on pending lock record r is one that succeeds on a bridge
\* that is not paused
WellFormedUnlock(c, r) ==
    /\ ReachesSignatureCheck(c, r)
    /\ Cardinality(Endorsing(c.signatures, r)) >= bridge_config.data.validator_threshold
    /\ c.vault_token_account = "tVault"
    /\ c.user_token_account = TokenAccountOf(r.user)
    /\ ~U64Lt(token_accounts["tVault"].amount, r.locked_amount)

\* C4: while the bridge is paused no LockTokens succeeds or changes an
\* account (a signed one fails with BridgePaused), and the UnlockTokens of
\* a pending record with enough valid signatures still succeeds.
PauseBlocksLockNotUnlock ==
    [][(Initialized /\ bridge_config.data.is_paused)
       => /\ last'.op = "LockTokens"
             => /\ last'.res # "Ok"
                /\ UNCHANGED <<bridge_config, user_bridge_states, token_accounts>>
                /\ last'.call.is_signer => last'.res = "BridgePaused"
          /\ (/\ last'.op = "UnlockTokens"
              /\ last'.call.user_bridge_state_account \in DOMAIN user_bridge_states
              /\ WellFormedUnlock(last'.call,
                                  user_bridge_states[last'.call.user_bridge_state_account]))
             => /\ last'.res = "Ok"
                /\ user_bridge_states'[last'.call.user_bridge_state_account].unlocked
                /\ user_bridge_states'[last'.call.user_bridge_state_account].status = "Completed"]_vars

\* an unlock succeeded on a paused bridge
UnlockedWhilePaused ==
    /\ Initialized /\ bridge_config.data.is_paused
    /\ last.op = "UnlockTokens" /\ last.res = "Ok"

\* the arguments Initialize must reject
BadInitializeArgs(c) ==
    \/ c.fee_basis_points > 10000
    \/ Len(c.validators) = 0
    \/ Len(c.validators) > 5
    \/ c.validator_threshold = 0
    \/ c.validator_threshold > Len(c.validators)

\* C5: Initialize with fee_bps > 10000, with no or more than 5 validators,
\* or with threshold 0 or above the number of validators fails and leaves
\* the config account as it was (no BridgeConfig is persisted).
InitializeRejectsBadArgs ==
    [][(last'.op = "Initialize" /\ BadInitializeArgs(last'.call))
       => /\ last'.res # "Ok"
          /\ bridge_config' = bridge_config
          /\ ~Initialized => ~Initialized']_vars

\* a signed Initialize of a fresh config account was rejected for its arguments
BadInitializeRejected ==
    /\ last.op = "Initialize" /\ BadInitializeArgs(last.call)
    /\ last.res \in {"InvalidFee", "InvalidArgument"}
    /\ ~Initialized

\* C6: in every reachable state an existing BridgeConfig has fee_bps <= 10000,
\* between 1 and 5 validators, and 1 <= threshold <= number of validators.
ConfigInvariant ==
    Initialized
    => /\ bridge_config.data.fee_basis_points <= 10000
       /\ Len(bridge_config.data.validators) >= 1
       /\ Len(bridge_config.data.validators) <= 5
       /\ bridge_config.data.validator_threshold >= 1
       /\ bridge_config.data.validator_threshold <= Len(bridge_config.data.validators)

\* a config whose fee UpdateConfig has changed, with locks made and one released
ConfigAfterUpdates ==
    /\ Initialized
    /\ bridge_config.data.fee_basis_points = 10
    /\ bridge_config.data.relayer_authority = "R2"
    /\ bridge_config.data.nonce = MaxLocks
    /\ \E a \in DOMAIN user_bridge_states : user_bridge_states[a].unlocked

\* amount * bps fits a u64
ProductFits(amount, bps) == bps = 0 \/ ~U64Lt(checked_div(U64_MAX, bps), amount)

\* fee = floor(amount * bps / 10000): 0 <= amount * bps - fee * 10000 < 10000
IsFloorFee(fee, amount, bps) ==
    /\ checked_mul(amount, bps) # None
    /\ checked_mul(fee, 10000) # None
    /\ ~U64Lt(checked_mul(amount, bps), checked_mul(fee, 10000))
    /\ U64Lt(checked_sub(checked_mul(amount, bps), checked_mul(fee, 10000)), U64(10000))

\* a u64 below 2^17 as a number
IsSmall(a) == a[2] < 4 /\ a[3] = 0 /\ a[4] = 0 /\ a[5] = 0
SmallValue(a) == a[1] + a[2] * Base

\* C7: a successful LockTokens records net = amount - fee with
\* fee = floor(amount * fee_bps / 10000) and 0 <= net <= amount; a lock whose
\* product amount * fee_bps does not fit a u64 fails with Overflow and
\* records nothing.
FeeArithmetic ==
    (last.op = "LockTokens" /\ Initialized)
    => LET c == last.call
           bps == bridge_config.data.fee_basis_points
       IN  /\ last.res = "Ok"
              => LET net == user_bridge_states[c.user_bridge_state_account].locked_amount
                     fee == checked_sub(c.amount, net)
                 IN  /\ bps <= 10000
                     /\ ProductFits(c.amount, bps)
                     /\ IsU64(net)
                     /\ ~U64Lt(c.amount, net)
                     /\ IsFloorFee(fee, c.amount, bps)
                     /\ IsSmall(c.amount)
                        => SmallValue(net) =
                             SmallValue(c.amount) - ((SmallValue(c.amount) * bps) \div 10000)
           /\ (/\ ~ProductFits(c.amount, bps)
               /\ c.is_signer /\ ~bridge_config.data.is_paused
               /\ c.destination_chain \in 1..10)
              => /\ last.res = "Overflow"
                 /\ c.user_bridge_state_account \notin DOMAIN user_bridge_states
           /\ last.res = "Overflow" => ~ProductFits(c.amount, bps)

\* the largest amount that 50 basis points can be charged on was locked
LargestLockAt50 ==
    /\ last.op = "LockTokens" /\ last.res = "Ok"
    /\ last.call.amount = MaxAmountAt50
    /\ bridge_config.data.fee_basis_points = 50
    /\ user_bridge_states[last.call.user_bridge_state_account].locked_amount # last.call.amount

\* no two lock records share a nonce
NoncesUnique ==
    \A a, b \in DOMAIN user_bridge_states :
        a # b => user_bridge_states[a].nonce # user_bridge_states[b].nonce

\* what one step does to nonces
NonceStep ==
    /\ \A a \in DOMAIN user_bridge_states :
          /\ a \in DOMAIN user_bridge_states'
          /\ user_bridge_states'[a].nonce = user_bridge_states[a].nonce
    /\ (last'.op = "LockTokens" /\ last'.res = "Ok")
       => /\ last'.call.user_bridge_state_account \notin DOMAIN user_bridge_states
          /\ DOMAIN user_bridge_states' =
                 DOMAIN user_bridge_states \cup {last'.call.user_bridge_state_account}
          /\ user_bridge_states'[last'.call.user_bridge_state_account].nonce =
                 bridge_config.data.nonce
          /\ bridge_config'.data.nonce = bridge_config.data.nonce + 1
    /\ ~(last'.op = "LockTokens" /\ last'.res = "Ok")
       => /\ DOMAIN user_bridge_states' = DOMAIN user_bridge_states
          /\ Initialized => Initialized' /\ bridge_config'.data.nonce = bridge_config.data.nonce

\* C8: each successful LockTokens gives its record the value config.nonce had
\* and raises config.nonce by exactly 1; any other step, a failed LockTokens
\* included, leaves config.nonce and the set of records as they were; no two
\* records share a nonce and a record's nonce never changes.
NonceAssignment == [](NoncesUnique) /\ [][NonceStep]_vars

\* two users hold a lock record each, one of them released
TwoUsersLocked ==
    /\ \E a, b \in DOMAIN user_bridge_states :
          /\ user_bridge_states[a].user = "U1" /\ user_bridge_states[b].user = "U2"
          /\ user_bridge_states[a].unlocked
    /\ bridge_config.data.nonce = 2

\* C9: an UnlockTokens whose relayer account did not sign fails with
\* MissingRequiredSignature, one signed by a key other than the configured
\* relayer fails with Unauthorized, both without changing an account; only a
\* call signed by the relayer the config names at that time succeeds.
OnlyRelayerUnlocks ==
    [][last'.op = "UnlockTokens"
       => /\ ~last'.call.is_signer
             => /\ last'.res = "MissingRequiredSignature"
                /\ UNCHANGED <<bridge_config, user_bridge_states, token_accounts>>
          /\ (/\ last'.call.is_signer /\ Initialized
              /\ last'.call.relayer_account # bridge_config.data.relayer_authority)
             => /\ last'.res = "Unauthorized"
                /\ UNCHANGED <<bridge_config, user_bridge_states, token_accounts>>
          /\ last'.res = "Ok"
             => /\ last'.call.is_signer
                /\ last'.call.relayer_account = bridge_config.data.relayer_authority
          /\ last'.res # "Ok"
             => UNCHANGED <<bridge_config, user_bridge_states, token_accounts>>]_vars

\* after UpdateConfig replaced the relayer, the new relayer released a lock
\* that the former relayer could no longer release
NewRelayerAccepted ==
    /\ last.op = "UnlockTokens" /\ last.res = "Ok"
    /\ last.call.relayer_account = "R2"
    /\ bridge_config.data.relayer_authority = "R2"

\* C10: UpdateConfig, Pause and Unpause change the config only when signed by
\* the admin the config names at that time; signed by any other key they
\* fail with Unauthorized, and a failed call leaves the config unchanged.
OnlyAdminAdministers ==
    [][last'.op \in {"UpdateConfig", "Pause", "Unpause"}
       => /\ (/\ last'.call.is_signer /\ Initialized
              /\ last'.call.admin_account # bridge_config.data.admin)
             => last'.res = "Unauthorized"
          /\ last'.res # "Ok" => bridge_config' = bridge_config
          /\ bridge_config' # bridge_config
             => /\ last'.call.is_signer
                /\ Initialized
                /\ last'.call.admin_account = bridge_config.data.admin
          /\ UNCHANGED <<user_bridge_states, token_accounts>>]_vars

\* the former admin was turned away after UpdateConfig named a new admin
FormerAdminRejected ==
    /\ last.op \in {"UpdateConfig", "Pause", "Unpause"}
    /\ last.res = "Unauthorized"
    /\ last.call.admin_account = "A1"
    /\ bridge_config.data.admin = "A2"

InitializeAtMostOnce ==
    [][last'.op = "Initialize"
       => /\ last'.res = "Ok"
             => /\ ~Initialized
                /\ bridge_config'.owner = PROGRAM_ID
                /\ bridge_config'.data.admin = last'.call.admin
                /\ bridge_config'.data.relayer_authority = last'.call.relayer_authority
                /\ bridge_config'.data.fee_basis_points = last'.call.fee_basis_points
                /\ bridge_config'.data.validators = last'.call.validators
                /\ bridge_config'.data.validator_threshold = last'.call.validator_threshold
                /\ bridge_config'.data.nonce = 0
                /\ bridge_config'.data.total_locked = U64_ZERO
                /\ bridge_config'.data.is_paused = FALSE
                /\ UNCHANGED <<user_bridge_states, token_accounts>>
          /\ Initialized
             => /\ last'.res # "Ok"
                /\ UNCHANGED <<bridge_config, user_bridge_states, token_accounts>>
                /\ (last'.call.is_signer /\ last'.call.admin_account = last'.call.admin)
                   => last'.res = "AlreadyInitialized"]_vars

\* an Initialize was turned away from a config that has locks and funds recorded
SecondInitializeRejected ==
    /\ last.op = "Initialize" /\ last.res = "AlreadyInitialized"
    /\ bridge_config.data.nonce > 0
    /\ bridge_config.data.total_locked # U64_ZERO
    /\ bridge_config.data.is_paused

\* the token accounts the vault's derived address owns: the vault's custody
CustodyAccounts == {k \in TokenAccountKeys : token_accounts[k].owner = VaultPda.key}

\* C17: a successful LockTokens of `amount` takes exactly `amount` from a
\* token account of the caller and adds exactly `amount` to a token account
\* in the vault's custody, creates one record owned by the caller with status
\* Pending, unlocked false and locked_amount net = amount - fee, and raises
\* total_locked by exactly net.
LockMovesAmountIntoCustody ==
    [][(last'.op = "LockTokens" /\ last'.res = "Ok")
       => LET c == last'.call
              a == c.user_bridge_state_account
          IN  /\ token_accounts[c.user_token_account].owner = Wallet(c.user_account)
              /\ token_accounts'[c.user_token_account].amount =
                     checked_sub(token_accounts[c.user_token_account].amount, c.amount)
              /\ c.vault_token_account \in CustodyAccounts
              /\ token_accounts'[c.vault_token_account].amount =
                     checked_add(token_accounts[c.vault_token_account].amount, c.amount)
              /\ a \notin DOMAIN user_bridge_states
              /\ DOMAIN user_bridge_states' = DOMAIN user_bridge_states \cup {a}
              /\ user_bridge_states'[a].user = c.user_account
              /\ user_bridge_states'[a].status = "Pending"
              /\ user_bridge_states'[a].unlocked = FALSE
              /\ IsFloorFee(checked_sub(c.amount, user_bridge_states'[a].locked_amount),
                            c.amount, bridge_config.data.fee_basis_points)
              /\ bridge_config'.data.total_locked =
                     checked_add(bridge_config.data.total_locked,
                                 user_bridge_states'[a].locked_amount)]_vars

\* C18: a successful UnlockTokens takes exactly the record's locked_amount
\* from a token account in the vault's custody and adds it to a token account
\* of the owner the record names, marks the record Completed and unlocked,
\* lowers total_locked by exactly locked_amount, and changes no other balance.
UnlockPaysRecordedOwner ==
    [][(last'.op = "UnlockTokens" /\ last'.res = "Ok")
       => LET c == last'.call
              a == c.user_bridge_state_account
              r == user_bridge_states[a]
          IN  /\ c.vault_token_account \in CustodyAccounts
              /\ token_accounts'[c.vault_token_account].amount =
                     checked_sub(token_accounts[c.vault_token_account].amount, r.locked_amount)
              /\ token_accounts[c.user_token_account].owner = Wallet(r.user)
              /\ token_accounts'[c.user_token_account].amount =
                     checked_add(token_accounts[c.user_token_account].amount, r.locked_amount)
              /\ \A k \in TokenAccountKeys \ {c.vault_token_account, c.user_token_account} :
                     token_accounts'[k] = token_accounts[k]
              /\ user_bridge_states'[a].unlocked
              /\ user_bridge_states'[a].status = "Completed"
              /\ bridge_config'.data.total_locked =
                     checked_sub(bridge_config.data.total_locked, r.locked_amount)]_vars

\* lock call c passes every check that precedes the ones on the token account
ReachesTokenChecks(c) ==
    /\ Initialized /\ c.is_signer /\ ~bridge_config.data.is_paused
    /\ c.amount # U64_ZERO /\ c.destination_chain \in 1..10
    /\ ProductFits(c.amount, bridge_config.data.fee_basis_points)

\* C19 as stated: a LockTokens that reaches the checks on the token account
\* fails with InsufficientFunds, creating no record and consuming no nonce,
\* whenever the caller's balance is below amount or the token account
\* presented is of another mint than the asset of the call.
LockMismatchIsInsufficientFunds ==
    [][(/\ last'.op = "LockTokens"
        /\ ReachesTokenChecks(last'.call)
        /\ \/ U64Lt(token_accounts[last'.call.user_token_account].amount, last'.call.amount)
           \/ token_accounts[last'.call.user_token_account].mint # last'.call.token_mint_account)
       => /\ last'.res = "InsufficientFunds"
          /\ UNCHANGED <<bridge_config, user_bridge_states, token_accounts>>]_vars

\* C19 amended: a LockTokens that reaches the checks on the token account
\* fails, creating no record and consuming no nonce, with InsufficientFunds
\* when the caller's balance is below amount, and with InvalidAccountData when
\* the balance suffices and the token account presented is not of the mint
\* presented with the call.
LockBalanceAndMintChecks ==
    [][(last'.op = "LockTokens" /\ ReachesTokenChecks(last'.call))
       => LET c == last'.call
              user_token == token_accounts[c.user_token_account]
          IN  /\ U64Lt(user_token.amount, c.amount)
                 => /\ last'.res = "InsufficientFunds"
                    /\ UNCHANGED <<bridge_config, user_bridge_states, token_accounts>>
              /\ (~U64Lt(user_token.amount, c.amount) /\ user_token.mint # c.token_mint_account)
                 => /\ last'.res = "InvalidAccountData"
                    /\ UNCHANGED <<bridge_config, user_bridge_states, token_accounts>>
              /\ last'.res \in {"InsufficientFunds", "InvalidAccountData"}
                 => \/ U64Lt(user_token.amount, c.amount)
                    \/ user_token.mint # c.token_mint_account]_vars

\* a lock was refused for a token account of another mint, after one was
\* refused for a balance below the amount
LockRefusedForMint ==
    /\ last.op = "LockTokens" /\ last.res = "InvalidAccountData"
    /\ token_accounts[last.call.user_token_account].mint = "M2"
    /\ U64Lt(token_accounts["tU2"].amount, U64(1000000000))

\* no two rows of the ledger share a nonce or a source tx hash
NoDuplicateRows ==
    \A i, j \in 1..Len(ledger) :
        i # j => /\ ledger[i].nonce # ledger[j].nonce
                 /\ ledger[i].from_tx_hash # ledger[j].from_tx_hash

\* what a step of a monitor does to the ledger: the rows it holds stay as they
\* are, and an event whose nonce or source hash a row holds adds none
IngestStep ==
    /\ Len(ledger') >= Len(ledger)
    /\ \A i \in 1..Len(ledger) : ledger'[i] = ledger[i]
    /\ (/\ last'.op = "handle_event"
        /\ \E i \in 1..Len(ledger) :
              \/ ledger[i].nonce = last'.call.item.nonce
              \/ ledger[i].from_tx_hash = last'.call.item.tx_hash)
       => ledger' = ledger
    /\ last'.op = "process" => ledger' = ledger

\* C13: under every interleaving of the two monitors and every repetition of
\* what they observe, the ledger never holds two rows with one nonce or two
\* rows with one source tx hash, and ingesting an event whose nonce or source
\* hash is present leaves the existing row as the only one, unmodified.
LedgerCreateIdempotent == [](NoDuplicateRows) /\ [][IngestStep]_vars

\* both monitors passed the nonce check for nonce 0 before either inserted; the
\* second insert was refused and one row holds the nonce
SecondInsertRefused ==
    /\ last.op = "handle_event" /\ last.res = "DatabaseError"
    /\ last.call.item.nonce = 0
    /\ Cardinality({i \in 1..Len(ledger) : ledger[i].nonce = 0}) = 1
    /\ \E i \in 1..Len(ledger) : ledger[i].from_tx_hash = "e2"

\* the row of the ledger with the given id, which is its place in the table
RowChangedOnly(id, fields) ==
    /\ Len(ledger') = Len(ledger)
    /\ \A i \in 1..Len(ledger) : i # id => ledger'[i] = ledger[i]
    /\ \A f \in DOMAIN ledger[id] : f \notin fields => ledger'[id][f] = ledger[id][f]

\* C20: when the submitter processes a row it read as Pending, either
\* collecting succeeds and the row, and nothing else, gets the collected
\* signatures and the status SignaturesCollected, or collecting fails, with
\* an unsupported destination among the failures, and the ledger is left as
\* it was, the row Pending and among the rows the next cycle reads
PendingStep ==
    [][(last'.op = "process_transaction" /\ last'.call.status = "Pending") =>
          LET id == last'.call.id
          IN  /\ ledger[id] = last'.call
              /\ IF last'.res = "Ok"
                 THEN /\ ledger'[id].status = "SignaturesCollected"
                      /\ ledger'[id].signatures # None
                      /\ Len(from_str(ledger'[id].signatures[1])) >= 1
                      /\ RowChangedOnly(id, {"status", "signatures"})
                 ELSE /\ ledger' = ledger
                      /\ ledger'[id].status = "Pending"
                      /\ \E i \in 1..Len(get_pending_transactions(ledger')) :
                            get_pending_transactions(ledger')[i].id = id
              /\ (last'.call.to_chain = "Sui" => last'.res = "InvalidChain")]_vars

\* collecting has succeeded for one row and has just failed for a row with
\* an unsupported destination
CollectedAndRefused ==
    /\ last.op = "process_transaction"
    /\ last.res = "InvalidChain"
    /\ last.call.status = "Pending"
    /\ \E i \in 1..Len(ledger) :
          /\ ledger[i].status = "SignaturesCollected"
          /\ ledger[i].signatures # None

\* the moves of a status the order Pending, SignaturesCollected, Submitted,
\* Confirmed allows, and the moves to Failed
ForwardMoves ==
    {<<"Pending", "SignaturesCollected">>, <<"SignaturesCollected", "Submitted">>,
     <<"Submitted", "Confirmed">>, <<"Pending", "Failed">>,
     <<"SignaturesCollected", "Failed">>, <<"Submitted", "Failed">>}

\* C14: in every step of the relayer every row stays in the ledger and its
\* status either stays or makes one forward move; a row that is Confirmed or
\* Failed is left exactly as it is
StatusMovesForward ==
    [][\A i \in 1..Len(ledger) :
          /\ i <= Len(ledger')
          /\ ledger'[i].id = ledger[i].id
          /\ \/ ledger'[i].status = ledger[i].status
             \/ <<ledger[i].status, ledger'[i].status>> \in ForwardMoves
          /\ (ledger[i].status \in {"Confirmed", "Failed"} => ledger'[i] = ledger[i])]_vars

\* a row has moved from Pending through SignaturesCollected to Submitted
RowSubmitted ==
    \E i \in 1..Len(ledger) :
        /\ ledger[i].status = "Submitted"
        /\ ledger[i].signatures # None
        /\ ledger[i].to_tx_hash # None
        /\ submitter.pc = "tick"

\* the ledger has a row for the source transaction, in one of the statuses
RowIn(from_tx_hash, statuses) ==
    \E i \in 1..Len(ledger) :
        /\ ledger[i].from_tx_hash = from_tx_hash
        /\ ledger[i].status \in statuses

\* C15: with validators that have endpoints, the relayer keys set and the
\* monitor and submitter loops scheduled fairly, the row of an observed
\* lock, and the row of an observed burn to a Solana key, eventually becomes
\* Confirmed
ObservedEventuallyConfirmed ==
    \A from_tx_hash \in {"s1", "e2"} :
        RowIn(from_tx_hash, {"Pending"}) ~> RowIn(from_tx_hash, {"Confirmed"})

\* C16: the message the aggregator had signed for a release on Solana is the
\* message the vault recomputes in UnlockTokens for the row's nonce,
\* recipient key and amount
SignerAndVerifierAgree ==
    \A i \in 1..Len(ledger) :
        (/\ ledger[i].to_chain = "Solana"
         /\ ledger[i].signatures # None
         /\ Pubkey_from_str(ledger[i].recipient) # None) =>
            \A j \in 1..Len(from_str(ledger[i].signatures[1])) :
                from_str(ledger[i].signatures[1])[j].signature.of =
                    create_unlock_message(ledger[i].nonce,
                                          Pubkey_from_str(ledger[i].recipient)[1].id,
                                          U64(ledger[i].amount))

\* C21: when the submitter processes a row it read as SignaturesCollected,
\* either the release on the destination succeeds and the row, and nothing
\* else, gets the returned hash and the status Submitted, or the step fails
\* (signatures missing, relayer key not set, recipient that does not parse,
\* unsupported destination) and the ledger is left as it was
SignaturesCollectedStep ==
    [][(last'.op = "process_transaction" /\ last'.call.status = "SignaturesCollected") =>
          LET id == last'.call.id
          IN  /\ ledger[id] = last'.call
              /\ IF last'.res = "Ok"
                 THEN /\ ledger'[id].status = "Submitted"
                      /\ ledger'[id].to_tx_hash # None
                      /\ ledger'[id].to_tx_hash[1].of = ledger[id].nonce
                      /\ RowChangedOnly(id, {"status", "to_tx_hash"})
                 ELSE /\ ledger' = ledger
                      /\ last'.res \in {"InvalidSignature", "ConfigError", "ParseError",
                                        "InvalidChain"}]_vars

\* a release has been recorded for one row and has just failed for another
\* whose recipient does not parse
SubmittedAndRefused ==
    /\ last.op = "process_transaction"
    /\ last.res = "ParseError"
    /\ last.call.status = "SignaturesCollected"
    /\ \E i \in 1..Len(ledger) :
          /\ ledger[i].status = "Submitted"
          /\ ledger[i].to_tx_hash = Some([form |-> "solana_tx_", of |-> ledger[i].nonce])

\* C23: at every tick of the submitter every row that is Submitted is among
\* the rows read for processing in that cycle
SubmittedRowsRead ==
    [][last'.op = "tick" =>
          \A i \in 1..Len(ledger) :
              ledger[i].status = "Submitted" =>
                  \E k \in 1..Len(submitter'.queue) : submitter'.queue[k].id = ledger[i].id]_vars

\* C22: when process_transaction is handed a Submitted row, the row becomes
\* Confirmed if the destination reports its transaction finalized with
\* success, Failed with an error message if it reports it finalized with a
\* failure, and is left as it was otherwise
SubmittedStep ==
    [][(last'.op = "process_row" /\ last'.call.tx.status = "Submitted") =>
          LET id == last'.call.tx.id
          IN  CASE last'.call.signature_status = "finalized" ->
                       ledger'[id].status = "Confirmed"
                [] last'.call.signature_status = "failed" ->
                       /\ ledger'[id].status = "Failed"
                       /\ ledger'[id].error_message # None
                [] OTHER -> ledger' = ledger]_vars

\* the ids of the rows of a sequence
IdsOf(rows) == {rows[k].id : k \in 1..Len(rows)}

\* C24: a tick reads each row that is Pending or SignaturesCollected once;
\* in the cycle the row processed is the one read, no row still waiting in
\* the cycle was created before it, and it leaves the rows waiting while
\* every other stays
QueueOldestFirst ==
    [][/\ (last'.op = "tick" =>
              /\ IdsOf(submitter'.queue) =
                     {ledger[i].id : i \in {j \in 1..Len(ledger) :
                          ledger[j].status \in {"Pending", "SignaturesCollected"}}}
              /\ Cardinality(IdsOf(submitter'.queue)) = Len(submitter'.queue))
       /\ (last'.op = "process_transaction" =>
              /\ last'.call.id \in IdsOf(submitter.queue)
              /\ \A k \in 1..Len(submitter.queue) :
                    \/ submitter.queue[k].id = last'.call.id
                    \/ submitter.queue[k].created_at > last'.call.created_at
              /\ IdsOf(submitter'.queue) = IdsOf(submitter.queue) \ {last'.call.id}
              /\ Len(submitter'.queue) = Len(submitter.queue) - 1)]_vars

\* in a cycle over several rows the oldest has been processed and a younger
\* one waits
OlderProcessedFirst ==
    /\ last.op = "process_transaction"
    /\ submitter.queue # <<>>
    /\ \A k \in 1..Len(submitter.queue) : submitter.queue[k].created_at > last.call.created_at

\* the submitter after a step that failed: the ledger as it was and the
\* loop at the next row of the cycle, or at the next tick after the last
GoesOnAfterError ==
    (last'.op = "process_transaction" /\ last'.res # "Ok") =>
        /\ ledger' = ledger
        /\ submitter'.pc = IF Len(submitter.queue) > 1 THEN "run" ELSE "tick"
        /\ IdsOf(submitter'.queue) = IdsOf(submitter.queue) \ {last'.call.id}

\* a row that is Pending or SignaturesCollected, whatever failed on it
\* before, is read again at every tick
ReadAgain ==
    last'.op = "tick" =>
        \A i \in 1..Len(ledger) :
            ledger[i].status \in {"Pending", "SignaturesCollected"} =>
                ledger[i].id \in IdsOf(submitter'.queue)

\* C25: a step of the submitter that fails changes nothing and the loop
\* goes on with the next row; the rows that fail are read again at every
\* tick; no row is ever Failed; and beside rows that fail on every attempt
\* (an unsupported destination, a recipient that does not parse) the row of
\* a burn to a Solana key still reaches Submitted
ErrorsDoNotStopSubmitter ==
    /\ [][GoesOnAfterError /\ ReadAgain]_vars
    /\ [](\A i \in 1..Len(ledger) : ledger[i].status # "Failed")
    /\ (RowIn("e2", {"Pending"}) ~> RowIn("e2", {"Submitted"}))

\* a lock for an unsupported destination, created first, is still Pending
\* and has just failed again while a younger row is Submitted
FailingRowBesideSubmitted ==
    /\ last.op = "process_transaction"
    /\ last.res = "InvalidChain"
    /\ RowIn("s2", {"Pending"})
    /\ RowIn("e2", {"Submitted"})
    /\ \E i, j \in 1..Len(ledger) :
          /\ ledger[i].from_tx_hash = "s2"
          /\ ledger[j].from_tx_hash = "e2"
          /\ i < j

\* the validators of the configuration that have an endpoint
WithEndpoint == {i \in 1..Len(submitter.validators) : submitter.validators[i].endpoint # None}

\* C26: the aggregator returns one signature for each validator that has an
\* endpoint and none for the others; it fails, with InsufficientSignatures
\* and got = 0, exactly when no validator has an endpoint, and succeeds with
\* any other number of signatures
OneSignaturePerEndpoint ==
    last.op = "collect" =>
        LET out == last.call.out
            field == IF last.call.destination = "Ethereum" THEN "eth_address" ELSE "sol_public_key"
        IN  /\ Len(out.signatures) = Cardinality(WithEndpoint)
            /\ {out.signatures[k].validator_address : k \in 1..Len(out.signatures)} =
                   {submitter.validators[i][field] : i \in WithEndpoint}
            /\ (out.res = "InsufficientSignatures") = (WithEndpoint = {})
            /\ (out.res = "Ok") = (WithEndpoint # {})
            /\ (out.res = "InsufficientSignatures" => out.got = 0)

\* one validator alone has an endpoint and the aggregator succeeds with its
\* one signature
OneSignatureSucceeds ==
    /\ last.op = "collect"
    /\ last.res = "Ok"
    /\ Len(last.call.out.signatures) = 1
    /\ Cardinality(WithEndpoint) = 1

\* the checkpoint of the Ethereum monitor is at most the height observed
\* last minus the confirmations
BehindFinality ==
    monitors["Ethereum"].last_block + monitors["Ethereum"].confirmations
        <= monitors["Ethereum"].current_block

\* the checkpoint of the Ethereum monitor does not decrease, and the scan
\* under way covers no block above the height observed minus the
\* confirmations and none at or below the checkpoint
ScansBehindFinality ==
    /\ [][monitors["Ethereum"].pc # "start" =>
             monitors'["Ethereum"].last_block >= monitors["Ethereum"].last_block]_vars
    /\ [](monitors["Ethereum"].scanning =>
             /\ monitors["Ethereum"].to_block + monitors["Ethereum"].confirmations
                    <= monitors["Ethereum"].current_block
             /\ monitors["Ethereum"].from_block = monitors["Ethereum"].last_block + 1
             /\ monitors["Ethereum"].from_block <= monitors["Ethereum"].to_block)

\* C27 as stated: from startup on the checkpoint is at most the observed
\* height minus the confirmations, it never decreases and no block above
\* the height minus the confirmations is scanned
CheckpointBehindFinality ==
    /\ [](monitors["Ethereum"].pc \notin {"start", "ended"} => BehindFinality)
    /\ ScansBehindFinality

\* C27 amended: the checkpoint starts at the height observed at startup;
\* once it has moved from there it is at most the observed height minus the
\* confirmations; it never decreases and no block above the height minus
\* the confirmations is scanned
CheckpointAdvancesBehindFinality ==
    /\ [](monitors["Ethereum"].pc \notin {"start", "ended"} =>
             \/ monitors["Ethereum"].last_block = monitors["Ethereum"].start_block
             \/ BehindFinality)
    /\ [][monitors["Ethereum"].pc = "start" =>
             monitors'["Ethereum"].last_block = monitors'["Ethereum"].current_block]_vars
    /\ ScansBehindFinality

\* with two confirmations the checkpoint has advanced past its start and a
\* burn of the scanned blocks has its row
CheckpointAdvanced ==
    /\ monitors["Ethereum"].confirmations = 2
    /\ monitors["Ethereum"].pc = "poll"
    /\ monitors["Ethereum"].last_block > monitors["Ethereum"].start_block
    /\ RowIn("e2", {"Pending"})

\* C28: in the Solana monitor a step on one item of a tick never ends the
\* loop, and in both monitors a step on an item that fails leaves the rest
\* of the tick's items to be processed
ItemFailureSkipped ==
    [][last'.op = "item" =>
          LET c == last'.call.chain
          IN  /\ monitors'[c].pc # "ended"
              /\ (last'.res \notin {"Insert"} =>
                     /\ monitors'[c].pc = "poll"
                     /\ monitors'[c].batch = Tail(monitors[c].batch)
                     /\ ledger' = ledger)]_vars

\* C29: when a monitor cannot reach its chain, at startup or at a later
\* tick, the monitor is not ended and stands where it stood, to try again
UnreachableRetried ==
    [][(last'.op \in {"start", "fetch"} /\ last'.res \in {"SolanaRpcError", "EthereumRpcError"}) =>
          LET c == last'.call.chain
          IN  /\ monitors'[c].pc # "ended"
              /\ monitors'[c].pc = monitors[c].pc]_vars

\* a step of one task leaves the other tasks' own state as it was
TaskStepIsLocal ==
    /\ (last'.op \in {"start", "fetch", "item", "advance", "handle_event"} =>
           /\ \A c \in MonitoredChains : c # last'.call.chain => monitors'[c] = monitors[c]
           /\ submitter' = submitter)
    /\ (last'.op \in {"tick", "process_transaction"} => monitors' = monitors)

\* C30: whatever the other tasks are waiting for, a monitor that has not
\* ended and the submitter can each take their next step, and a step of one
\* task changes neither the checkpoint nor any other state of another
TasksNeverBlocked ==
    /\ [](/\ (monitors["Solana"].pc # "ended" => ENABLED SolanaTask)
          /\ (monitors["Ethereum"].pc # "ended" => ENABLED EthereumTask)
          /\ ENABLED SubmitterTask)
    /\ [][TaskStepIsLocal]_vars

\* the Solana monitor still waits for the answer to its first request while
\* the Ethereum monitor has advanced its checkpoint and recorded a burn and
\* the submitter has collected signatures for it
OneChainSlow ==
    /\ monitors["Solana"].pc = "start"
    /\ monitors["Ethereum"].last_block > monitors["Ethereum"].start_block
    /\ RowIn("e2", {"SignaturesCollected"})

\* the fields of the config UpdateConfig has no argument for
ConfigRest(cfg) ==
    [owner |-> cfg.owner, vault_pda_bump |-> cfg.data.vault_pda_bump,
     is_paused |-> cfg.data.is_paused, total_locked |-> cfg.data.total_locked,
     nonce |-> cfg.data.nonce, validators |-> cfg.data.validators,
     validator_threshold |-> cfg.data.validator_threshold]

\* C31: a successful UpdateConfig sets the admin, the relayer and the fee to
\* the value supplied where one is supplied and leaves each as it was where
\* none is; the paused flag, total_locked, the nonce, the validators, the
\* threshold, every lock record and every token account stay as they were
UpdateConfigChangesSupplied ==
    [][(last'.op = "UpdateConfig" /\ last'.res = "Ok") =>
          /\ bridge_config'.data.admin =
                 IF last'.call.new_admin # None THEN last'.call.new_admin[1]
                 ELSE bridge_config.data.admin
          /\ bridge_config'.data.relayer_authority =
                 IF last'.call.new_relayer # None THEN last'.call.new_relayer[1]
                 ELSE bridge_config.data.relayer_authority
          /\ bridge_config'.data.fee_basis_points =
                 IF last'.call.new_fee # None THEN last'.call.new_fee[1]
                 ELSE bridge_config.data.fee_basis_points
          /\ ConfigRest(bridge_config') = ConfigRest(bridge_config)
          /\ user_bridge_states' = user_bridge_states
          /\ token_accounts' = token_accounts]_vars

\* with a lock recorded and the bridge paused, an UpdateConfig that supplied
\* the admin alone has succeeded: the fee is the one set before
AdminAloneReplaced ==
    /\ last.op = "UpdateConfig"
    /\ last.res = "Ok"
    /\ last.call.new_admin = Some("A2")
    /\ last.call.new_relayer = None
    /\ last.call.new_fee = None
    /\ bridge_config.data.admin = "A2"
    /\ bridge_config.data.fee_basis_points = 10
    /\ bridge_config.data.is_paused
    /\ DOMAIN user_bridge_states # {}

\* the accounts after Pause and then Unpause, both called as c, from the
\* current state
PauseThenUnpause(c) ==
    LET p == entrypoint(process_pause(c, bridge_config, user_bridge_states, token_accounts),
                        bridge_config, user_bridge_states, token_accounts)
        u == entrypoint(process_unpause(c, p.config, p.states, p.tokens),
                        p.config, p.states, p.tokens)
    IN  <<p.res, u.res, u.config, u.states, u.tokens>>

\* Pause and Unpause called by the admin succeed, paused or not, set the flag
\* and change nothing else
PauseSetsFlagOnly ==
    [][(/\ last'.op \in {"Pause", "Unpause"}
        /\ Initialized
        /\ last'.call.is_signer
        /\ last'.call.admin_account = bridge_config.data.admin)
       => /\ last'.res = "Ok"
          /\ bridge_config'.data.is_paused = (last'.op = "Pause")
          /\ bridge_config' = [bridge_config EXCEPT !.data.is_paused = (last'.op = "Pause")]
          /\ user_bridge_states' = user_bridge_states
          /\ token_accounts' = token_accounts]_vars

\* C32 as stated: Pause and Unpause by the admin set the flag, succeed when
\* it is already set, change nothing else, and Pause followed by Unpause
\* restores the state before the Pause
PauseUnpauseRestores ==
    /\ PauseSetsFlagOnly
    /\ [](Initialized =>
            \A c \in AdminPauseCalls :
                admin_check(c, bridge_config) = "Ok" =>
                    PauseThenUnpause(c) =
                        <<"Ok", "Ok", bridge_config, user_bridge_states, token_accounts>>)

\* C32: Pause and Unpause by the admin set the flag, succeed when it is
\* already set and change nothing else; Pause followed by Unpause restores
\* the state before the Pause when the bridge was not paused then, and
\* leaves the flag cleared, with all else as before, when it was
PauseUnpauseFromRunning ==
    /\ PauseSetsFlagOnly
    /\ [](Initialized =>
            \A c \in AdminPauseCalls :
                admin_check(c, bridge_config) = "Ok" =>
                    PauseThenUnpause(c) =
                        <<"Ok", "Ok",
                          [bridge_config EXCEPT !.data.is_paused = FALSE],
                          user_bridge_states, token_accounts>>)

\* the new admin has unpaused the bridge with a lock recorded
UnpausedByNewAdmin ==
    /\ last.op = "Unpause"
    /\ last.res = "Ok"
    /\ last.call.admin_account = "A2"
    /\ bridge_config.data.admin = "A2"
    /\ ~bridge_config.data.is_paused
    /\ DOMAIN user_bridge_states # {}

\* the sum of locked_amount over the lock records at the addresses S, None
\* when it does not fit a u64
RECURSIVE SumLocked(_)
SumLocked(S) ==
    IF S = {} THEN U64_ZERO
    ELSE LET a == CHOOSE x \in S : TRUE
             rest == SumLocked(S \ {a})
         IN  IF rest = None THEN None
             ELSE checked_add(rest, user_bridge_states[a].locked_amount)

NotUnlocked == {a \in DOMAIN user_bridge_states : ~user_bridge_states[a].unlocked}

\* C33: total_locked is the sum of locked_amount over the lock records not
\* yet unlocked, whatever the fee was set to between a lock and its unlock,
\* and no UnlockTokens fails on the subtraction from total_locked
TotalLockedIsSumOfPending ==
    /\ [](Initialized => bridge_config.data.total_locked = SumLocked(NotUnlocked))
    /\ [][last'.op = "UnlockTokens" => last'.res # "Overflow"]_vars

\* with the fee set to 10 basis points, one lock has been unlocked while
\* another is still pending
UnlockedAfterFeeChange ==
    /\ last.op = "UnlockTokens"
    /\ last.res = "Ok"
    /\ NotUnlocked # {}
    /\ \E a \in DOMAIN user_bridge_states :
          /\ user_bridge_states[a].unlocked
          /\ user_bridge_states[a].locked_amount # U64_ZERO
    /\ bridge_config.data.fee_basis_points = 10
    /\ bridge_config.data.total_locked # U64_ZERO

\* C34: the balance of the vault's token account is at least total_locked,
\* whatever token accounts earlier LockTokens and UnlockTokens calls were
\* passed, so every pending lock record can be paid out in full
VaultSolvent ==
    Initialized =>
        /\ ~U64Lt(token_accounts["tVault"].amount, bridge_config.data.total_locked)
        /\ \A a \in NotUnlocked :
              ~U64Lt(token_accounts["tVault"].amount, user_bridge_states[a].locked_amount)

\* C35: every lock record is Completed exactly when its unlocked flag is set
\* and Pending exactly when it is not; none is Cancelled, and no UnlockTokens
\* fails with InvalidStatus
StatusFollowsUnlocked ==
    /\ [](\A a \in DOMAIN user_bridge_states :
            /\ user_bridge_states[a].status \in {"Pending", "Completed"}
            /\ user_bridge_states[a].status # "Cancelled"
            /\ (user_bridge_states[a].status = "Completed") = user_bridge_states[a].unlocked
            /\ (user_bridge_states[a].status = "Pending") = ~user_bridge_states[a].unlocked)
    /\ [][last'.op = "UnlockTokens" => last'.res # "InvalidStatus"]_vars

\* a completed record stands beside a pending one, and the unlock of the
\* completed one has just been refused as already unlocked
CompletedBesidePending ==
    /\ last.op = "UnlockTokens"
    /\ last.res = "AlreadyUnlocked"
    /\ user_bridge_states[last.call.user_bridge_state_account].status = "Completed"
    /\ \E a \in DOMAIN user_bridge_states : user_bridge_states[a].status = "Pending"

\* the event a monitor decodes from an item of its chain
DecodedEvent(c, item) ==
    IF c = "Solana" THEN parse_logs(item.log_messages, item.signature).event[1]
    ELSE decode_log(item).event[1]

\* the ledger db has a row carrying the source tx hash, sender, recipient and
\* amount of event e
RowCarries(db, e) ==
    \E i \in 1..Len(db) :
        /\ db[i].from_tx_hash = e.tx_hash
        /\ db[i].from_chain = e.from_chain
        /\ db[i].sender = e.sender
        /\ db[i].recipient = e.recipient
        /\ db[i].amount = e.amount

\* the ledger db has a row of e's own source chain with e's nonce or tx hash
OwnChainDuplicate(db, e) ==
    \E i \in 1..Len(db) :
        /\ db[i].from_chain = e.from_chain
        /\ (db[i].nonce = e.nonce \/ db[i].from_tx_hash = e.tx_hash)

\* C36: once a monitor is done with an event it decoded, skipped as a
\* duplicate or handed to handle_event, the ledger has a row carrying that
\* event's own source tx hash, sender, recipient and amount, even when the
\* other chain has produced an event with the same nonce; an event that
\* repeats a nonce or tx hash of its own chain is left aside
NotDroppedForOtherChain ==
    [][/\ (last'.op = "process" /\ last'.res = "Skipped")
          => LET e == DecodedEvent(last'.call.chain, last'.call.item)
             IN  RowCarries(ledger', e) \/ OwnChainDuplicate(ledger', e)
       /\ last'.op = "handle_event"
          => \/ RowCarries(ledger', last'.call.item)
             \/ OwnChainDuplicate(ledger', last'.call.item)]_vars

\* the destination chains process_lock_tokens accepts
AcceptedDestinationChains == 1..10

\* C37: every TokensLocked event of a lock the vault accepted, whatever its
\* destination chain from 1 to 10, is decoded by the Solana monitor (held
\* for the insert, or skipped as already recorded), and its Pending row is
\* one the Submitter can advance past Pending: with some validators
\* answering, collect_signatures on it succeeds
EveryLockRelayed ==
    /\ [][(/\ last'.op = "process"
           /\ last'.call.chain = "Solana"
           /\ ~last'.call.item.err
           /\ last'.call.item.log_messages # None
           /\ last'.call.item.log_messages[1].destination_chain \in AcceptedDestinationChains)
          => last'.res \in {"Insert", "Skipped"}]_vars
    /\ [](\A i \in 1..Len(ledger) :
            (ledger[i].from_chain = "Solana" /\ ledger[i].status = "Pending")
            => \E endpoints \in EndpointSets :
                  collect_signatures(ledger[i], ledger, SubmitterKeyed(endpoints)).res = "Ok")

\* C38: a row that is SignaturesCollected holds at least as many signatures
\* as the vault's validator threshold, so that a release submitted from it
\* is not refused with ThresholdNotMet for lack of signatures
CollectedMeetsThreshold ==
    Initialized =>
        \A i \in 1..Len(ledger) :
            ledger[i].status = "SignaturesCollected"
            => /\ ledger[i].signatures # None
               /\ Len(from_str(ledger[i].signatures[1])) >= bridge_config.data.validator_threshold

ScannedBurns ==
    LET logs == get_logs(monitors["Ethereum"].from_block, monitors["Ethereum"].to_block)
    IN  {decode_log(logs[k]).event[1] : k \in {j \in 1..Len(logs) : logs[j].decodes}}

\* C40: each range the Ethereum monitor fetches starts at the checkpoint + 1
\* and ends at the new checkpoint, a failed fetch leaves the checkpoint as it
\* was, and when the checkpoint moves past a range every burn event in it is
\* recorded in the ledger or has been skipped as a duplicate nonce: none is
\* passed by with its processing failed
ScanLosesNoBurn ==
    [][/\ (last'.op = "fetch" /\ last'.call.chain = "Ethereum")
          => /\ monitors'["Ethereum"].last_block = monitors["Ethereum"].last_block
             /\ last'.res = "Ok"
                => monitors'["Ethereum"].from_block = monitors["Ethereum"].last_block + 1
       /\ (last'.op = "advance" /\ last'.call.chain = "Ethereum")
          => /\ monitors'["Ethereum"].last_block = monitors["Ethereum"].to_block
             /\ \A e \in ScannedBurns :
                   RowCarries(ledger', e) \/ is_nonce_processed(ledger', e.nonce)]_vars

====
